---- MODULE Spec2Model ----
(***************************************************************************)
(* Model of the ThreeFold Connect authentication provider                  *)
(* (src/auth-provider/synapse_tf_connect.py, class TFConnectAuthProvider). *)
(*                                                                         *)
(* Python values are modelled as follows.  A str is a sequence of          *)
(* one-character strings.  A dict is a function whose domain is the set of *)
(* keys it holds.  The Python value None is the record None.  time.time()  *)
(* is the variable now.                                                    *)
(***************************************************************************)
EXTENDS Integers, Sequences, FiniteSets, TLC

(***************************************************************************)
(* Bounds of the model.                                                    *)
(***************************************************************************)
MaxTime == 3

(***************************************************************************)
(* Configuration (tf_config), with small values.                           *)
(***************************************************************************)
session_timeout == 1
max_login_attempts == 2
rate_limit_window == 2
user_cache_ttl == 2
token_cache_ttl == 2
server_name == <<"h">>

(***************************************************************************)
(* Python helpers.                                                         *)
(***************************************************************************)
None == [isNone |-> TRUE]
EmptyDict == [k \in {} |-> TRUE]

\* The JSON value null where claims are expected to hold a text: Python's
\* None, which is no str (a str is a sequence of one-character strings)
JsonNull == <<"None">>

\* The exception of a method call on a value that has no such method
AttributeError == <<"AttributeError">>

\* bool(x) for x a dict or None
Truthy(x) == x # None /\ DOMAIN x # {}

\* dict.get(k, default)
Get(d, k, default) == IF k \in DOMAIN d THEN d[k] ELSE default

\* d[k] = v
Put(d, k, v) == [x \in DOMAIN d \cup {k} |-> IF x = k THEN v ELSE d[x]]

\* d.pop(k, None)
Pop(d, k) == [x \in DOMAIN d \ {k} |-> d[x]]

UpperCase == <<"A","B","C","D","E","F","G","H","I","J","K","L","M",
               "N","O","P","Q","R","S","T","U","V","W","X","Y","Z">>
LowerCase == <<"a","b","c","d","e","f","g","h","i","j","k","l","m",
               "n","o","p","q","r","s","t","u","v","w","x","y","z">>

LowerChar(c) ==
    IF \E i \in 1..Len(UpperCase) : UpperCase[i] = c
    THEN LowerCase[CHOOSE i \in 1..Len(UpperCase) : UpperCase[i] = c]
    ELSE c

\* str.lower()
Lower(s) == [i \in 1..Len(s) |-> LowerChar(s[i])]

\* str.replace(old, new) for one-character old and new
Replace(s, old, new) == [i \in 1..Len(s) |-> IF s[i] = old THEN new ELSE s[i]]

\* str.split(sep)[-1]: the text after the last sep, the whole text without one
SplitLast(s, sep) ==
    LET idx == {i \in 1..Len(s) : s[i] = sep}
        last_i == IF idx = {} THEN 0 ELSE CHOOSE i \in idx : \A j \in idx : j <= i
    IN  SubSeq(s, last_i + 1, Len(s))

\* str.split(sep)[0]: the text before the first sep, the whole text without one
SplitFirst(s, sep) ==
    LET idx == {i \in 1..Len(s) : s[i] = sep}
        first_i == IF idx = {} THEN Len(s) + 1 ELSE CHOOSE i \in idx : \A j \in idx : i <= j
    IN  SubSeq(s, 1, first_i - 1)

\* The keys of the JSON objects the provider writes and reads, in the order
\* in which a text lists them
JsonKeys == <<"cached_at", "created_at", "doubleName", "email", "name",
              "user_info", "username">>

\* Members whose value is an object, and members whose value is a number;
\* every other member is a string
JsonObjectKeys == {"user_info"}
JsonNumberKeys == {"cached_at", "created_at"}

\* json.dumps of a dict: a str (the record [json |-> text]) whose text is
\* the list of the members, each with its key and its value written as a
\* string, a number or the text of an object
RECURSIVE JsonDumps(_)
JsonDumps(v) ==
    LET keys == SelectSeq(JsonKeys, LAMBDA k : k \in DOMAIN v)
        member(k) ==
            [key |-> k,
             value |-> CASE k \in JsonObjectKeys -> [object |-> JsonDumps(v[k])]
                         [] k \in JsonNumberKeys -> [number |-> v[k]]
                         [] OTHER -> [string |-> v[k]]]
    IN  [json |-> [i \in 1..Len(keys) |-> member(keys[i])]]

\* json.loads of such a str: the dict of the members of the text, a key
\* that is listed twice having the value listed last
RECURSIVE JsonLoads(_)
JsonLoads(s) ==
    LET text == s.json
        value(m) == CASE "object" \in DOMAIN m -> JsonLoads(m.object)
                      [] "number" \in DOMAIN m -> m.number
                      [] OTHER -> m.string
        last_of(k) == CHOOSE i \in 1..Len(text) :
                          /\ text[i].key = k
                          /\ \A j \in 1..Len(text) : text[j].key = k => j <= i
    IN  [k \in {text[i].key : i \in 1..Len(text)} |-> value(text[last_of(k)].value)]

\* Raw credentials a client may send, and the empty text
Tokens == {"t1", "t2", "t3"}

\* hashlib.sha256(token.encode()).hexdigest(): a fixed-length text that is
\* different for different tokens and does not contain the token
Sha256Hex(token) ==
    CASE token = "t1" -> "9f2c"
      [] token = "t2" -> "e3b0"
      [] token = "t3" -> "a1d4"
      [] OTHER -> "0000"

(***************************************************************************)
(* The world outside the provider.                                         *)
(***************************************************************************)
ClientIPs == {"c1"}
SessionIds == {"s1"}
Attempts == {1, 2}

IdJo == [doubleName |-> <<"J", ".", "D">>, email |-> <<"j", "@", "A">>]
IdEve == [doubleName |-> <<"e">>, email |-> <<"e", "@", "b">>]
IdJoSession == [doubleName |-> <<"j", "_", "d">>, name |-> <<"N">>,
                email |-> <<"k", "@", "a">>]
IdColon == [doubleName |-> <<"c", ":", "d">>, email |-> <<"c", "@", "a">>]

\* The identity claims the IdP holds for a token
IdPDirectory(token) ==
    CASE token = "t1" -> IdJo
      [] token = "t3" -> IdColon
      [] OTHER -> IdEve

\* What one GET {api_base_url}/api/users/me can come back with
IdPResponses == {"200", "200empty", "401", "500", "timeout", "badjson"}

\* Identities the out-of-band flow can deposit into a pending session
SessionIdentities == {IdJoSession}

VARIABLES
    now,                \* time.time()
    redis_client,       \* TRUE iff self.redis_client is not None
    allowed_domains,    \* tf_config['allowed_domains'], as the set of its entries
    redis,              \* the Redis server: namespace -> key -> [val, exp]
    pending_sessions,   \* self.pending_sessions
    rate_limit_cache,   \* self.rate_limit_cache
    user_cache,         \* self.user_cache
    accounts,           \* the host account store, by user id
    att,                \* the check_auth calls in flight
    recent_failures,    \* history: failures recorded inside the window, by client
    session_created,    \* history: when each session id was created
    sessions_consumed,  \* history: session ids whose verification gave an identity
    token_verified_at,  \* history: when, at most a TTL ago, the IdP answered 200 for each token
    token_written,      \* history: the identity Redis stored for each token inside the TTL, when, and whether the write raised
    ensured,            \* history: the first _ensure_user_exists that succeeded, by user id
    last                \* history: what the latest check_auth step did

vars == <<now, redis_client, allowed_domains, redis, pending_sessions,
          rate_limit_cache, user_cache, accounts, att, recent_failures,
          session_created, sessions_consumed, token_verified_at, token_written,
          ensured, last>>

NoExpiry == 0 - 1

(***************************************************************************)
(* The Redis server.                                                       *)
(***************************************************************************)
\* GET key: absent keys and keys whose TTL has elapsed answer None
RedisGet(ns, key) ==
    IF key \in DOMAIN ns /\ (ns[key].exp = NoExpiry \/ now < ns[key].exp)
    THEN ns[key].val
    ELSE None

\* SETEX key ttl value
RedisSetex(ns, key, ttl, value) == Put(ns, key, [val |-> value, exp |-> now + ttl])

\* SET key value
RedisSet(ns, key, value) == Put(ns, key, [val |-> value, exp |-> NoExpiry])

\* DEL key
RedisDelete(ns, key) == Pop(ns, key)

\* The server drops the keys whose TTL has elapsed at time t
RedisExpire(ns, t) ==
    [k \in {x \in DOMAIN ns : ns[x].exp = NoExpiry \/ t < ns[x].exp} |-> ns[k]]

(***************************************************************************)
(* Rate limiter.                                                           *)
(***************************************************************************)
\* The number of timestamps of a list that are inside the window at time t
RecentAttempts(attempts, t) ==
    Cardinality({i \in 1..Len(attempts) : t - attempts[i] < rate_limit_window})

\* Mutant of check_rate_limit: the comparison of line 252 off by one
check_rate_limit_off_by_one(cache, client_ip) ==
    LET cleaned == [ip \in {x \in DOMAIN cache :
                              now - cache[x][Len(cache[x])] < rate_limit_window}
                      |-> cache[ip]]
        attempts == Get(cleaned, client_ip, <<>>)
    IN  [cache |-> cleaned,
         allowed |-> RecentAttempts(attempts, now) <= max_login_attempts]

\* Mutant of check_rate_limit: every stored timestamp counts, line 250 missing
check_rate_limit_counts_all(cache, client_ip) ==
    LET cleaned == [ip \in {x \in DOMAIN cache :
                              now - cache[x][Len(cache[x])] < rate_limit_window}
                      |-> cache[ip]]
        attempts == Get(cleaned, client_ip, <<>>)
    IN  [cache |-> cleaned,
         allowed |-> Len(attempts) < max_login_attempts]

\* Mutant of check_rate_limit: the rebuilt map keeps the caller's list only
check_rate_limit_keeps_caller_only(cache, client_ip) ==
    LET cleaned == [ip \in {x \in DOMAIN cache :
                              /\ now - cache[x][Len(cache[x])] < rate_limit_window
                              /\ x = client_ip}
                      |-> cache[ip]]
        attempts == Get(cleaned, client_ip, <<>>)
    IN  [cache |-> cleaned,
         allowed |-> RecentAttempts(attempts, now) < max_login_attempts]

\* Mutant of check_rate_limit: a rejected call is recorded as a failure
check_rate_limit_records_blocked(cache, client_ip) ==
    LET cleaned == [ip \in {x \in DOMAIN cache :
                              now - cache[x][Len(cache[x])] < rate_limit_window}
                      |-> cache[ip]]
        attempts == Get(cleaned, client_ip, <<>>)
        allowed == RecentAttempts(attempts, now) < max_login_attempts
    IN  [cache |-> IF allowed THEN cleaned
                   ELSE Put(cleaned, client_ip, Append(attempts, now)),
         allowed |-> allowed]

\* Mutant of check_rate_limit: a call that passes starts a new window
check_rate_limit_resets_on_pass(cache, client_ip) ==
    LET cleaned == [ip \in {x \in DOMAIN cache :
                              now - cache[x][Len(cache[x])] < rate_limit_window}
                      |-> cache[ip]]
        attempts == Get(cleaned, client_ip, <<>>)
        allowed == RecentAttempts(attempts, now) < max_login_attempts
    IN  [cache |-> IF allowed
                   THEN [ip \in DOMAIN cleaned \ {client_ip} |-> cleaned[ip]]
                   ELSE cleaned,
         allowed |-> allowed]

\* _check_rate_limit: the rebuilt map and the verdict
check_rate_limit(cache, client_ip) ==
    LET cleaned == [ip \in {x \in DOMAIN cache :
                              now - cache[x][Len(cache[x])] < rate_limit_window}
                      |-> cache[ip]]
        attempts == Get(cleaned, client_ip, <<>>)
    IN  [cache |-> cleaned,
         allowed |-> RecentAttempts(attempts, now) < max_login_attempts]

\* Mutant of record_failed_attempt: the list of line 258 is created and
\* nothing is appended
record_failed_attempt_empty_list(cache, client_ip) ==
    Put(cache, client_ip, Get(cache, client_ip, <<>>))

\* Mutant of record_failed_attempt: the timestamp is appended to the list
\* of every client
record_failed_attempt_every_client(cache, client_ip) ==
    [ip \in DOMAIN cache \cup {client_ip} |-> Append(Get(cache, ip, <<>>), now)]

\* Mutant of record_failed_attempt: the append of line 259 is lost
record_failed_attempt_lost(cache, client_ip) == cache

\* _record_failed_attempt
record_failed_attempt(cache, client_ip) ==
    Put(cache, client_ip, Append(Get(cache, client_ip, <<>>), now))

(***************************************************************************)
(* Token cache and token verifier.  A Redis call is a round trip: the      *)
(* server handles the command when it arrives and the client goes on when  *)
(* the answer arrives.  ok_get tells whether the call answers (TRUE) or    *)
(* raises (FALSE), applied whether the server has carried out the write: a *)
(* call raises when the command did not reach the server and also when the *)
(* server carried it out and the answer was lost.  The operators on the    *)
(* store are evaluated at the time the server handles the command.         *)
(***************************************************************************)
\* Mutant of get_cached_token: the entry of any token is a hit
get_cached_token_any_token(token, ok_get) ==
    LET live == {k \in DOMAIN redis.token : RedisGet(redis.token, k) # None}
    IN  IF redis_client /\ ok_get /\ live # {}
        THEN JsonLoads(RedisGet(redis.token, CHOOSE k \in live : TRUE))
        ELSE None

\* _get_cached_token
get_cached_token(token, ok_get) ==
    LET cache_key == Sha256Hex(token)
        cached == RedisGet(redis.token, cache_key)
    IN  IF redis_client /\ ok_get /\ cached # None
        THEN JsonLoads(cached)
        ELSE None

\* Mutant of cache_token: the entry is stored for twice the TTL
cache_token_double_ttl(token, user_info, applied) ==
    LET cache_key == Sha256Hex(token)
        cache_ttl == token_cache_ttl + token_cache_ttl
    IN  IF redis_client /\ applied
        THEN RedisSetex(redis.token, cache_key, cache_ttl, JsonDumps(user_info))
        ELSE redis.token

\* Mutant of cache_token: the key is the raw token, not its digest
cache_token_raw_key(token, user_info, applied) ==
    LET cache_key == token
        cache_ttl == token_cache_ttl
    IN  IF redis_client /\ applied
        THEN RedisSetex(redis.token, cache_key, cache_ttl, JsonDumps(user_info))
        ELSE redis.token

\* _cache_token: the token namespace once the SETEX of line 316 has reached
\* the server and has been applied, or has not
cache_token(token, user_info, applied) ==
    LET cache_key == Sha256Hex(token)
        cache_ttl == token_cache_ttl
    IN  IF redis_client /\ applied
        THEN RedisSetex(redis.token, cache_key, cache_ttl, JsonDumps(user_info))
        ELSE redis.token

\* Mutant of request_tf_token: line 168 tests "!= 401" instead of "== 200"
request_tf_token_not_401(token, resp) ==
    IF resp \in {"200", "200empty", "500"}
    THEN [user_info |-> IF resp = "200empty" THEN EmptyDict ELSE IdPDirectory(token),
          caches |-> TRUE]
    ELSE [user_info |-> None, caches |-> FALSE]

\* _verify_tf_token from the return of requests.get on (lines 168-185):
\* the claims it goes on with, and whether it calls _cache_token with them
request_tf_token(token, resp) ==
    IF resp \in {"200", "200empty"}
    THEN [user_info |-> IF resp = "200" THEN IdPDirectory(token) ELSE EmptyDict,
          caches |-> TRUE]
    ELSE [user_info |-> None, caches |-> FALSE]

(***************************************************************************)
(* Session store and session verifier.                                     *)
(***************************************************************************)
\* A Redis command of a call: whether its outcome is settled (served),
\* whether the server has carried it out (applied), whether the call
\* answers or raises (ok), the value of the answer, and the value sent
NoCommand ==
    [served |-> FALSE, applied |-> FALSE, ok |-> TRUE, val |-> None, arg |-> None]

\* _get_session, the GET of line 328 having answered or raised as wire tells
get_session(session_id, wire) ==
    IF redis_client /\ wire.ok
    THEN IF wire.val # None THEN JsonLoads(wire.val) ELSE None
    ELSE Get(pending_sessions, session_id, None)

\* _remove_session after the DELETE of line 339: self.pending_sessions
remove_session(session_id) == Pop(pending_sessions, session_id)

\* Mutant of verify_session: a session without identity is removed
verify_session_drops_pending(session_data) ==
    IF ~Truthy(session_data)
    THEN [user_info |-> None, removes |-> FALSE]
    ELSE IF \/ now - Get(session_data, "created_at", 0) > session_timeout
            \/ "user_info" \notin DOMAIN session_data
    THEN [user_info |-> None, removes |-> TRUE]
    ELSE [user_info |-> Get(session_data, "user_info", None), removes |-> FALSE]

\* Mutant of verify_session: a session is removed when its identity is returned
verify_session_consumes(session_data) ==
    IF ~Truthy(session_data)
    THEN [user_info |-> None, removes |-> FALSE]
    ELSE IF \/ now - Get(session_data, "created_at", 0) > session_timeout
            \/ "user_info" \in DOMAIN session_data
    THEN [user_info |-> IF now - Get(session_data, "created_at", 0) > session_timeout
                        THEN None
                        ELSE Get(session_data, "user_info", None),
          removes |-> TRUE]
    ELSE [user_info |-> None, removes |-> FALSE]

\* Mutant of verify_session: the expiry test of line 196 is missing
verify_session_no_expiry(session_data) ==
    IF ~Truthy(session_data)
    THEN [user_info |-> None, removes |-> FALSE]
    ELSE [user_info |-> Get(session_data, "user_info", None), removes |-> FALSE]

\* _verify_session from line 192 on, with what _get_session returned: the
\* result, and whether _remove_session is called before it is returned
verify_session(session_data) ==
    IF ~Truthy(session_data)
    THEN [user_info |-> None, removes |-> FALSE]
    ELSE IF now - Get(session_data, "created_at", 0) > session_timeout
    THEN [user_info |-> None, removes |-> TRUE]
    ELSE [user_info |-> Get(session_data, "user_info", None), removes |-> FALSE]

(***************************************************************************)
(* Identity mapper.                                                        *)
(***************************************************************************)
\* _map_tf_user_to_matrix: the user id, or the AttributeError that
\* username.replace raises (line 209) when the name is not a str
map_tf_user_to_matrix(user_info) ==
    LET username == Get(user_info, "doubleName",
                        Get(user_info, "username", <<"u","n","k","n","o","w","n">>))
        clean_username == Lower(Replace(Replace(username, ".", "_"), "@", "_"))
    IN  IF username = JsonNull
        THEN AttributeError
        ELSE <<"@">> \o clean_username \o <<":">> \o server_name

\* Mutant of is_user_allowed: the membership test of line 272 is missing
is_user_allowed_any_domain(user_info) ==
    IF allowed_domains = {}
    THEN TRUE
    ELSE Get(user_info, "email", <<>>) # <<>>

\* _is_user_allowed
is_user_allowed(user_info) ==
    IF allowed_domains = {}
    THEN TRUE
    ELSE LET email == Get(user_info, "email", <<>>)
         IN  IF email = <<>>
             THEN FALSE
             ELSE Lower(SplitLast(email, "@")) \in allowed_domains

(***************************************************************************)
(* User-profile cache.                                                     *)
(***************************************************************************)
\* Mutant of cache_user_info: no write to self.user_cache when Redis fails
cache_user_info_no_fallback(user_id, cache_data, ok_set) == user_cache

\* _cache_user_info after the SETEX of line 284, which answered or raised
\* (or was not sent, without Redis): self.user_cache after the call
cache_user_info(user_id, cache_data, ok_set) ==
    IF redis_client /\ ok_set
    THEN user_cache
    ELSE Put(user_cache, user_id, cache_data)

(***************************************************************************)
(* Account provisioner (_ensure_user_exists) and the host account store.   *)
(***************************************************************************)
\* Mutant of ensure_next_call: an account that exists is created again
ensure_next_call_always_creates(existing_user) == "register_user"

\* Lines 219-231: the host call _ensure_user_exists issues once
\* check_user_exists has answered
ensure_next_call(existing_user) ==
    IF ~existing_user THEN "register_user" ELSE "set_displayname"

\* displayname passed to register_user and set_displayname
display_name_of(user_info) ==
    Get(user_info, "name", Get(user_info, "doubleName", <<"U","n","k","n","o","w","n">>))

\* Mutant of localpart_of: the leading '@' is kept
localpart_of_keeps_at(user_id) == SplitFirst(user_id, ":")

\* localpart passed to register_user: user_id.split(':')[0][1:]
localpart_of(user_id) ==
    LET head == SplitFirst(user_id, ":") IN SubSeq(head, 2, Len(head))

\* Mutant of emails_of: the list holds the email field whatever it is
emails_of_unconditional(user_info) == <<Get(user_info, "email", <<>>)>>

\* emails passed to register_user
emails_of(user_info) ==
    IF Get(user_info, "email", <<>>) # <<>> THEN <<user_info.email>> ELSE <<>>

\* The user id the host gives to a registered localpart
HostUserId(localpart) == <<"@">> \o localpart \o <<":">> \o server_name

\* account_handler.register_user: the account store after the call
register_user(store, localpart, displayname, emails) ==
    Put(store, HostUserId(localpart),
        [displayname |-> displayname, emails |-> emails, password |-> None])

\* account_handler.set_displayname: the account store after the call
set_displayname(store, user_id, displayname) ==
    IF user_id \in DOMAIN store
    THEN [store EXCEPT ![user_id].displayname = displayname]
    ELSE store

(***************************************************************************)
(* History record of one check_auth step.                                  *)
(***************************************************************************)
AllTrue == [get |-> TRUE, set |-> TRUE, del |-> TRUE]

NoStep ==
    [seg |-> "none", attempt |-> 0, login_type |-> "", client_ip |-> "",
     tf_token |-> "", session_id |-> "", recent_before |-> 0,
     consumed_before |-> FALSE, verified_before |-> FALSE,
     verified_ago |-> 0 - 1,
     redis_ok |-> AllTrue, host_ok |-> TRUE,
     result |-> "", errcode |-> "", stages |-> <<>>,
     token_lookups |-> 0, idp_requests |-> 0, idp_response |-> "",
     session_lookups |-> 0, session_removes |-> 0, served_at |-> 0 - 1,
     applied |-> FALSE,
     user_info |-> None, returned |-> <<>>,
     host_call |-> None,
     login_dict |-> EmptyDict, allowed_domains |-> allowed_domains]

\* A check_auth call in flight: where it waits (pc), its locals, the
\* history of the call so far and the Redis command it waits for
IdleAttempt ==
    [pc |-> "idle", user_id |-> <<>>, user_info |-> None, client_ip |-> "",
     call |-> NoStep, wire |-> NoCommand]

\* login_dict values: the request fields a client can send
LoginDicts ==
    {[k \in ks |-> CASE k = "client_ip" -> ip [] k = "tf_token" -> tok
                     [] k = "session_id" -> sid] :
        ks \in SUBSET {"client_ip", "tf_token", "session_id"},
        ip \in ClientIPs, tok \in Tokens, sid \in SessionIds}

LoginTypes == {"tf_connect", "org.threefold.connect"}

\* get_supported_login_types: login type -> credential fields
get_supported_login_types ==
    [t \in {"org.threefold.connect", "m.login.password"} |->
        IF t = "org.threefold.connect"
        THEN <<"tf_connect_token">>
        ELSE <<"password">>]

\* The login POST of TFConnectResource.render_GET (lines 406-409): the
\* signed attempt in the field tf_connect_token, with or without the client
\* address
CallbackDicts ==
    {[k \in ks |-> IF k = "client_ip" THEN ip ELSE tok] :
        ks \in {{"tf_connect_token"}, {"client_ip", "tf_connect_token"}},
        ip \in ClientIPs, tok \in Tokens}

NeverVerified == 0 - 1

\* The state after __init__ of a provider configured with the allowed
\* domain a: the ping of line 60 answered (TRUE) or raised
InitWith(slots, pings) ==
    /\ now = 0
    /\ redis_client \in pings
    /\ allowed_domains = {<<"a">>}
    /\ redis = [token |-> EmptyDict, user |-> EmptyDict, session |-> EmptyDict]
    /\ pending_sessions = EmptyDict
    /\ rate_limit_cache = EmptyDict
    /\ user_cache = EmptyDict
    /\ accounts = EmptyDict
    /\ att = [a \in slots |-> IdleAttempt]
    /\ recent_failures = [ip \in ClientIPs \cup {"unknown"} |-> <<>>]
    /\ session_created = EmptyDict
    /\ sessions_consumed = {}
    /\ token_verified_at = [t \in Tokens |-> NeverVerified]
    /\ token_written = [t \in Tokens |-> None]
    /\ ensured = EmptyDict
    /\ last = NoStep

Init == InitWith(Attempts, BOOLEAN)

(***************************************************************************)
(* check_auth, lines 94-131: from the call up to the first await that      *)
(* suspends (account_handler.check_user_exists).  _verify_tf_token and     *)
(* _verify_session contain no await, so no other callback of the process   *)
(* runs in this part.  The request to the IdP (line 162) and every Redis   *)
(* call (lines 284, 301, 316, 328, 339) are synchronous network round      *)
(* trips: the process is blocked in them while the clock, the expiry of    *)
(* Redis keys and the session flow go on.  Each of them ends a step, and   *)
(* the call goes on in a later step, at the time of the answer.            *)
(***************************************************************************)
\* Mutant of early_exit: the parameters are validated before the rate check
early_exit_parameters_first(allowed, tf_token, session_id) ==
    IF tf_token = "" /\ session_id = ""
    THEN [result |-> "400", errcode |-> "M_MISSING_PARAM",
          stages |-> <<"RECEIVED">>]
    ELSE IF ~allowed
    THEN [result |-> "429", errcode |-> "M_LIMIT_EXCEEDED",
          stages |-> <<"RECEIVED", "RATE_CHECK">>]
    ELSE [result |-> "", errcode |-> "", stages |-> <<"RECEIVED", "RATE_CHECK">>]

\* Mutant of early_exit: a client over the limit is not rejected
early_exit_ignores_limit(allowed, tf_token, session_id) ==
    IF tf_token = "" /\ session_id = ""
    THEN [result |-> "400", errcode |-> "M_MISSING_PARAM",
          stages |-> <<"RATE_CHECK", "RECEIVED">>]
    ELSE [result |-> "", errcode |-> "", stages |-> <<"RATE_CHECK", "RECEIVED">>]

\* Lines 100-110: the two exits before any verification
early_exit(allowed, tf_token, session_id) ==
    IF ~allowed
    THEN [result |-> "429", errcode |-> "M_LIMIT_EXCEEDED",
          stages |-> <<"RATE_CHECK">>]
    ELSE IF tf_token = "" /\ session_id = ""
    THEN [result |-> "400", errcode |-> "M_MISSING_PARAM",
          stages |-> <<"RATE_CHECK", "RECEIVED">>]
    ELSE [result |-> "", errcode |-> "", stages |-> <<"RATE_CHECK", "RECEIVED">>]

\* Lines 121-131: what check_auth does with the result of the verification:
\* the outcome, the rate-limit map after it and the mapped user id; an
\* exception of the mapping becomes the LoginError(500) of lines 143-145
after_verification(user_info, cache, client_ip) ==
    IF ~Truthy(user_info)
    THEN [result |-> "401", errcode |-> "M_FORBIDDEN",
          rate_limit_cache |-> record_failed_attempt(cache, client_ip),
          user_id |-> <<>>, stages |-> <<"CREDENTIAL_VERIFY">>]
    ELSE IF ~is_user_allowed(user_info)
    THEN [result |-> "403", errcode |-> "M_FORBIDDEN",
          rate_limit_cache |-> cache, user_id |-> <<>>,
          stages |-> <<"CREDENTIAL_VERIFY", "DOMAIN_CHECK">>]
    ELSE IF map_tf_user_to_matrix(user_info) = AttributeError
    THEN [result |-> "500", errcode |-> "M_UNKNOWN",
          rate_limit_cache |-> cache, user_id |-> <<>>,
          stages |-> <<"CREDENTIAL_VERIFY", "DOMAIN_CHECK", "IDENTITY_MAP">>]
    ELSE [result |-> "pending", errcode |-> "",
          rate_limit_cache |-> cache,
          user_id |-> map_tf_user_to_matrix(user_info),
          stages |-> <<"CREDENTIAL_VERIFY", "DOMAIN_CHECK", "IDENTITY_MAP">>]

\* The Redis calls of check_auth: where a call is blocked in one
RedisCalls ==
    {"get_cached_token", "cache_token", "get_session", "remove_session",
     "cache_user_info"}

\* The synchronous network calls of check_auth
BlockingCalls == RedisCalls \cup {"requests_get"}

\* Mutant of check_auth: the rate check of line 101 runs before the login
\* type is looked at
check_auth_rate_check_first(login_type, login_dict) ==
    LET client_ip == Get(login_dict, "client_ip", "unknown")
        tf_token == Get(login_dict, "tf_token", "")
        session_id == Get(login_dict, "session_id", "")
        rl == check_rate_limit(rate_limit_cache, client_ip)
        exit == early_exit(rl.allowed, tf_token, session_id)
        same == [result |-> "", errcode |-> "", stages |-> <<>>,
                 rate_limit_cache |-> rate_limit_cache,
                 pending |-> pending_sessions,
                 token_lookups |-> 0, idp_requests |-> 0, session_lookups |-> 0,
                 session_removes |-> 0, user_info |-> None, user_id |-> <<>>]
        checked == [same EXCEPT !.rate_limit_cache = rl.cache,
                                !.stages = exit.stages]
        \* without Redis _get_session reads self.pending_sessions and
        \* _remove_session pops from it: no call to wait for
        sv == verify_session(get_session(session_id, NoCommand))
        av == after_verification(sv.user_info, rl.cache, client_ip)
    IN  IF exit.result = "429"
        THEN [checked EXCEPT !.result = exit.result, !.errcode = exit.errcode]
        ELSE IF login_type # "tf_connect"
        THEN [checked EXCEPT !.result = "None", !.stages = <<>>]
        ELSE IF exit.result # ""
        THEN [checked EXCEPT !.result = exit.result, !.errcode = exit.errcode]
        ELSE IF tf_token # ""
        THEN [checked EXCEPT
                 !.token_lookups = 1,
                 !.idp_requests = IF redis_client THEN 0 ELSE 1,
                 !.result = IF redis_client THEN "get_cached_token"
                            ELSE "requests_get"]
        ELSE IF redis_client
        THEN [checked EXCEPT !.session_lookups = 1, !.result = "get_session"]
        ELSE [checked EXCEPT
                 !.session_lookups = 1,
                 !.session_removes = IF sv.removes THEN 1 ELSE 0,
                 !.pending = IF sv.removes THEN remove_session(session_id)
                             ELSE pending_sessions,
                 !.user_info = sv.user_info,
                 !.result = av.result, !.errcode = av.errcode,
                 !.rate_limit_cache = av.rate_limit_cache,
                 !.user_id = av.user_id,
                 !.stages = exit.stages \o av.stages]

\* check_auth from the call up to the point where it first waits: a Redis
\* GET (result "get_cached_token", line 301, or "get_session", line 328),
\* without Redis the request to the IdP (result "requests_get", line 162)
\* or the first host call (result "pending", line 134), or its end
check_auth(login_type, login_dict) ==
    LET client_ip == Get(login_dict, "client_ip", "unknown")
        tf_token == Get(login_dict, "tf_token", "")
        session_id == Get(login_dict, "session_id", "")
        rl == check_rate_limit(rate_limit_cache, client_ip)
        exit == early_exit(rl.allowed, tf_token, session_id)
        same == [result |-> "", errcode |-> "", stages |-> <<>>,
                 rate_limit_cache |-> rate_limit_cache,
                 pending |-> pending_sessions,
                 token_lookups |-> 0, idp_requests |-> 0, session_lookups |-> 0,
                 session_removes |-> 0, user_info |-> None, user_id |-> <<>>]
        checked == [same EXCEPT !.rate_limit_cache = rl.cache,
                                !.stages = exit.stages]
        \* without Redis _get_session reads self.pending_sessions and
        \* _remove_session pops from it: no call to wait for
        sv == verify_session(get_session(session_id, NoCommand))
        av == after_verification(sv.user_info, rl.cache, client_ip)
    IN  IF login_type # "tf_connect"
        THEN [same EXCEPT !.result = "None"]
        ELSE IF exit.result # ""
        THEN [checked EXCEPT !.result = exit.result, !.errcode = exit.errcode]
        ELSE IF tf_token # ""
        THEN [checked EXCEPT
                 !.token_lookups = 1,
                 !.idp_requests = IF redis_client THEN 0 ELSE 1,
                 !.result = IF redis_client THEN "get_cached_token"
                            ELSE "requests_get"]
        ELSE IF redis_client
        THEN [checked EXCEPT !.session_lookups = 1, !.result = "get_session"]
        ELSE [checked EXCEPT
                 !.session_lookups = 1,
                 !.session_removes = IF sv.removes THEN 1 ELSE 0,
                 !.pending = IF sv.removes THEN remove_session(session_id)
                             ELSE pending_sessions,
                 !.user_info = sv.user_info,
                 !.result = av.result, !.errcode = av.errcode,
                 !.rate_limit_cache = av.rate_limit_cache,
                 !.user_id = av.user_id,
                 !.stages = exit.stages \o av.stages]

\* The verification of a call has returned user_info: lines 121-131
verified(call, user_info) ==
    LET av == after_verification(user_info, rate_limit_cache, call.client_ip)
    IN  [result |-> av.result, errcode |-> av.errcode,
         rate_limit_cache |-> av.rate_limit_cache,
         user_id |-> av.user_id, user_info |-> user_info,
         stages |-> call.stages \o av.stages]

\* A call issues a synchronous network call and is blocked in it
waits(call, pc, user_info) ==
    [result |-> pc, errcode |-> "", rate_limit_cache |-> rate_limit_cache,
     user_id |-> <<>>, user_info |-> user_info, stages |-> call.stages]

\* No check_auth call is blocked in a synchronous network call: while one
\* is, the process runs nothing else
Unblocked == \A a \in DOMAIN att : att[a].pc \notin BlockingCalls

\* Call a goes on from a step with outcome out: it is blocked in a network
\* call, or suspended at the first host call, or it ends
Proceeds(a, call, out) ==
    \E step \in {[call EXCEPT
                      !.seg = IF out.result \in BlockingCalls THEN "request"
                              ELSE "start",
                      !.result = out.result, !.errcode = out.errcode,
                      !.stages = out.stages,
                      !.user_info = out.user_info]} :
        /\ rate_limit_cache' = out.rate_limit_cache
        /\ att' = CASE out.result = "pending" ->
                        [att EXCEPT ![a] = [pc |-> "check_user_exists",
                                            user_id |-> out.user_id,
                                            user_info |-> out.user_info,
                                            client_ip |-> call.client_ip,
                                            call |-> NoStep,
                                            wire |-> NoCommand]]
                    [] out.result \in BlockingCalls ->
                        [att EXCEPT ![a] = [pc |-> out.result,
                                            user_id |-> <<>>,
                                            user_info |-> out.user_info,
                                            client_ip |-> call.client_ip,
                                            call |-> step,
                                            wire |-> NoCommand]]
                    [] OTHER -> [att EXCEPT ![a] = IdleAttempt]
        /\ recent_failures' =
               IF out.result = "401"
               THEN [recent_failures EXCEPT ![call.client_ip] = Append(@, now)]
               ELSE recent_failures
        /\ sessions_consumed' =
               IF /\ call.session_lookups = 1
                  /\ out.result \notin BlockingCalls
                  /\ Truthy(out.user_info)
               THEN sessions_consumed \cup {call.session_id}
               ELSE sessions_consumed
        /\ last' = step

\* A client calls check_auth(username, login_type, login_dict); username is
\* not read by the code.  The step ends where the call first waits.
CheckAuth(a, login_type, login_dict) ==
    \E out \in {check_auth(login_type, login_dict)},
       client_ip \in {Get(login_dict, "client_ip", "unknown")},
       tf_token \in {Get(login_dict, "tf_token", "")},
       session_id \in {Get(login_dict, "session_id", "")} :
    \E call \in {[NoStep EXCEPT
                      !.attempt = a, !.login_type = login_type,
                      !.client_ip = client_ip,
                      !.login_dict = login_dict,
                      !.tf_token = tf_token,
                      !.session_id = session_id,
                      !.recent_before = Len(recent_failures[client_ip]),
                      !.consumed_before = session_id \in sessions_consumed,
                      !.verified_before =
                          /\ tf_token \in Tokens
                          /\ token_verified_at[tf_token] # NeverVerified
                          /\ now - token_verified_at[tf_token] < token_cache_ttl,
                      !.verified_ago =
                          IF /\ tf_token \in Tokens
                             /\ token_verified_at[tf_token] # NeverVerified
                          THEN now - token_verified_at[tf_token]
                          ELSE 0 - 1,
                      !.token_lookups = out.token_lookups,
                      !.idp_requests = out.idp_requests,
                      !.session_lookups = out.session_lookups,
                      !.session_removes = out.session_removes]} :
        /\ Unblocked
        /\ att[a].pc = "idle"
        \* the calls in flight are interchangeable: a new call takes the first free slot
        /\ \A b \in DOMAIN att : b < a => att[b].pc # "idle"
        /\ pending_sessions' = out.pending
        /\ Proceeds(a, call, out)
        /\ UNCHANGED <<now, redis_client, allowed_domains, redis, user_cache, accounts,
                       session_created, token_verified_at, token_written,
                       ensured>>

\* The outcome of the Redis command call a is blocked in is settled, at the
\* time the command arrives or is lost.  When the server carries it out
\* (applied) the GET reads the key, the SETEX stores the entry with its TTL
\* counted from now, the DELETE removes the key.  The call will answer (ok)
\* or raise; it raises when the command was not carried out and also when
\* it was and the answer is lost.
RedisServes(a, applied, ok) ==
    /\ att[a].pc \in RedisCalls
    /\ ~att[a].wire.served
    /\ ok => applied
    /\ \E pc \in {att[a].pc}, call \in {att[a].call} :
        /\ redis' =
             CASE pc = "cache_token" ->
                    [redis EXCEPT
                        !.token = cache_token(call.tf_token, att[a].user_info,
                                              applied)]
               [] pc = "remove_session" ->
                    [redis EXCEPT
                        !.session = IF applied
                                    THEN RedisDelete(@, call.session_id)
                                    ELSE @]
               [] pc = "cache_user_info" ->
                    [redis EXCEPT
                        !.user = IF applied
                                 THEN RedisSetex(@, att[a].user_id, user_cache_ttl,
                                                 JsonDumps(att[a].wire.arg))
                                 ELSE @]
               [] OTHER -> redis
        /\ att' = [att EXCEPT
                     ![a].wire =
                        [@ EXCEPT
                           !.served = TRUE, !.applied = applied, !.ok = ok,
                           !.val = CASE pc = "get_cached_token" ->
                                          get_cached_token(call.tf_token, ok)
                                     [] pc = "get_session" /\ ok ->
                                          RedisGet(redis.session, call.session_id)
                                     [] OTHER -> None],
                     ![a].call.redis_ok =
                        CASE pc \in {"get_cached_token", "get_session"} ->
                               [@ EXCEPT !.get = ok]
                          [] pc = "remove_session" -> [@ EXCEPT !.del = ok]
                          [] OTHER -> [@ EXCEPT !.set = ok],
                     ![a].call.applied = applied,
                     ![a].call.served_at = now]
        /\ token_written' =
               IF pc = "cache_token" /\ applied
               THEN [token_written EXCEPT
                        ![call.tf_token] = [user_info |-> att[a].user_info,
                                            at |-> now, raised |-> ~ok]]
               ELSE token_written
        /\ last' = [att'[a].call EXCEPT !.seg = "redis"]
    /\ UNCHANGED <<now, redis_client, allowed_domains, pending_sessions, rate_limit_cache,
                   user_cache, accounts, recent_failures, session_created,
                   sessions_consumed, token_verified_at, ensured>>

\* The GET of _get_cached_token returns (lines 301-307, 152-153): a hit is
\* the result of the verification, a miss leads to the request of line 162
GetCachedTokenReturns(a) ==
    /\ att[a].pc = "get_cached_token"
    /\ att[a].wire.served
    /\ \E call \in {att[a].call}, cached_user \in {att[a].wire.val} :
        IF Truthy(cached_user)
        THEN Proceeds(a, call, verified(call, cached_user))
        ELSE Proceeds(a, [call EXCEPT !.idp_requests = 1],
                      waits(call, "requests_get", None))
    /\ UNCHANGED <<now, redis_client, allowed_domains, redis, pending_sessions, user_cache,
                   accounts, session_created, token_verified_at, token_written,
                   ensured>>

\* requests.get of line 162 returns or raises, at the time it does so
\* (lines 168-185): on 200 the claims are sent to the token cache
IdPAnswers(a, resp) ==
    /\ att[a].pc = "requests_get"
    /\ \E call \in {[att[a].call EXCEPT !.idp_response = resp]} :
       \E rt \in {request_tf_token(call.tf_token, resp)} :
        /\ IF rt.caches /\ redis_client
           THEN Proceeds(a, call, waits(call, "cache_token", rt.user_info))
           ELSE Proceeds(a, call, verified(call, rt.user_info))
        /\ token_verified_at' =
               IF resp = "200"
               THEN [token_verified_at EXCEPT ![call.tf_token] = now]
               ELSE token_verified_at
    /\ UNCHANGED <<now, redis_client, allowed_domains, redis, pending_sessions, user_cache,
                   accounts, session_created, token_written, ensured>>

\* The SETEX of _cache_token returns or raises (lines 316-322, 172): the
\* claims are the result of the verification
CacheTokenReturns(a) ==
    /\ att[a].pc = "cache_token"
    /\ att[a].wire.served
    /\ Proceeds(a, att[a].call, verified(att[a].call, att[a].user_info))
    /\ UNCHANGED <<now, redis_client, allowed_domains, redis, pending_sessions, user_cache,
                   accounts, session_created, token_verified_at, token_written,
                   ensured>>

\* The GET of _get_session returns or raises (lines 328-333, 192-200): the
\* expiry test of line 196 reads the clock now
GetSessionReturns(a) ==
    /\ att[a].pc = "get_session"
    /\ att[a].wire.served
    /\ \E call \in {att[a].call} :
       \E sv \in {verify_session(get_session(call.session_id, att[a].wire))} :
        IF sv.removes
        THEN Proceeds(a, [call EXCEPT !.session_removes = 1],
                      waits(call, "remove_session", sv.user_info))
        ELSE Proceeds(a, call, verified(call, sv.user_info))
    /\ UNCHANGED <<now, redis_client, allowed_domains, redis, pending_sessions, user_cache,
                   accounts, session_created, token_verified_at, token_written,
                   ensured>>

\* The DELETE of _remove_session returns or raises (lines 339-343, 198)
RemoveSessionReturns(a) ==
    /\ att[a].pc = "remove_session"
    /\ att[a].wire.served
    /\ pending_sessions' = remove_session(att[a].call.session_id)
    /\ Proceeds(a, att[a].call, verified(att[a].call, att[a].user_info))
    /\ UNCHANGED <<now, redis_client, allowed_domains, redis, user_cache, accounts,
                   session_created, token_verified_at, token_written, ensured>>

(***************************************************************************)
(* check_auth, lines 133-145: _ensure_user_exists, _cache_user_info and    *)
(* the return.  Each await of a host call is a point where other calls     *)
(* may run; host_ok tells whether the host call answers or raises.         *)
(***************************************************************************)
\* Lines 136-139: _cache_user_info and the return of the user id
finish_login(a) ==
    [result |-> "returned", errcode |-> "", returned |-> att[a].user_id,
     stages |-> <<"PROVISION", "CACHE_WRITE", "SUCCESS">>]

\* Mutant of fail_login: the exception of the host call leaves check_auth
\* as it is, not as a LoginError
fail_login_untyped(a) ==
    [result |-> "raised", errcode |-> "", returned |-> <<>>,
     stages |-> <<"PROVISION">>]

\* Lines 234-236 and 143-145: the exception is logged, raised again and
\* turned into LoginError(500)
fail_login(a) ==
    [result |-> "500", errcode |-> "M_UNKNOWN", returned |-> <<>>,
     stages |-> <<"PROVISION">>]

\* Mutant of after_host_call: the exception of a host call is swallowed
after_host_call_swallowed(a, answered) == finish_login(a)

\* What check_auth does once a host call of _ensure_user_exists has
\* answered or raised
after_host_call(a, answered) ==
    IF answered THEN finish_login(a) ELSE fail_login(a)

\* The host call that call a has issued and awaits, with its arguments
\* (lines 217, 221-226, 230-231)
host_call(a) ==
    CASE att[a].pc = "check_user_exists" ->
           [op |-> "check_user_exists", user_id |-> att[a].user_id]
      [] att[a].pc = "register_user" ->
           [op |-> "register_user",
            localpart |-> localpart_of(att[a].user_id),
            password |-> None,
            displayname |-> display_name_of(att[a].user_info),
            emails |-> emails_of(att[a].user_info)]
      [] att[a].pc = "set_displayname" ->
           [op |-> "set_displayname", user_id |-> att[a].user_id,
            display_name |-> display_name_of(att[a].user_info)]
      [] OTHER -> None

\* Call a goes on after its last host call: it fails, or it builds the
\* cache entry with the time of line 279 and sends it to Redis (line 284),
\* or without Redis stores it in self.user_cache and returns
EndCall(a, seg, answered) ==
    \E out \in {after_host_call(a, answered)},
       cache_data \in {[user_info |-> att[a].user_info, cached_at |-> now]} :
    \E step \in {[NoStep EXCEPT
                    !.seg = seg, !.attempt = a, !.client_ip = att[a].client_ip,
                    !.user_info = att[a].user_info,
                    !.host_ok = answered, !.host_call = host_call(a),
                    !.result = out.result, !.errcode = out.errcode,
                    !.returned = out.returned, !.stages = out.stages]} :
        IF out.result = "returned" /\ redis_client
        THEN /\ att' = [att EXCEPT
                          ![a].pc = "cache_user_info",
                          ![a].wire = [NoCommand EXCEPT !.arg = cache_data],
                          ![a].call = [step EXCEPT !.result = "cache_user_info",
                                                   !.returned = <<>>,
                                                   !.stages = <<"PROVISION">>]]
             /\ user_cache' = user_cache
             /\ last' = att'[a].call
        ELSE /\ att' = [att EXCEPT ![a] = IdleAttempt]
             /\ user_cache' = IF out.result = "returned"
                              THEN cache_user_info(att[a].user_id, cache_data, FALSE)
                              ELSE user_cache
             /\ last' = step

\* The host answers check_user_exists (line 217); the code then issues
\* register_user or set_displayname
HostCheckUserExists(a, host_ok) ==
    /\ att[a].pc = "check_user_exists"
    /\ Unblocked
    /\ IF host_ok
       THEN /\ att' = [att EXCEPT
                          ![a].pc = ensure_next_call(att[a].user_id \in DOMAIN accounts)]
            /\ last' = [NoStep EXCEPT
                          !.seg = "exists", !.attempt = a,
                          !.host_call = host_call(a),
                          !.client_ip = att[a].client_ip,
                          !.user_info = att[a].user_info,
                          !.result = "pending", !.stages = <<"PROVISION">>]
            /\ user_cache' = user_cache
       ELSE EndCall(a, "exists", FALSE)
    /\ UNCHANGED <<now, redis_client, allowed_domains, redis, pending_sessions, rate_limit_cache,
                   accounts, recent_failures, session_created,
                   sessions_consumed, token_verified_at, token_written, ensured>>

\* The host answers register_user (lines 221-226); it refuses a user id
\* that is already registered
HostRegisterUser(a, host_ok) ==
    /\ att[a].pc = "register_user"
    /\ Unblocked
    /\ \E issued \in {host_call(a)}, localpart \in {localpart_of(att[a].user_id)} :
       \E answered \in {host_ok /\ HostUserId(localpart) \notin DOMAIN accounts} :
        /\ accounts' = IF answered
                       THEN register_user(accounts, issued.localpart,
                                          issued.displayname, issued.emails)
                       ELSE accounts
        /\ ensured' = IF answered /\ att[a].user_id \notin DOMAIN ensured
                      THEN Put(ensured, att[a].user_id,
                               [user_info |-> att[a].user_info,
                                account |-> accounts'[HostUserId(localpart)]])
                      ELSE ensured
        /\ EndCall(a, "register", answered)
    /\ UNCHANGED <<now, redis_client, allowed_domains, redis, pending_sessions, rate_limit_cache,
                   recent_failures, session_created, sessions_consumed,
                   token_verified_at, token_written>>

\* The host answers set_displayname (lines 230-231)
HostSetDisplayname(a, host_ok) ==
    /\ att[a].pc = "set_displayname"
    /\ Unblocked
    /\ accounts' = IF host_ok
                   THEN set_displayname(accounts, host_call(a).user_id,
                                        host_call(a).display_name)
                   ELSE accounts
    /\ ensured' = IF host_ok /\ att[a].user_id \notin DOMAIN ensured
                  THEN Put(ensured, att[a].user_id,
                           [user_info |-> att[a].user_info,
                            account |-> Get(accounts', att[a].user_id, None)])
                  ELSE ensured
    /\ EndCall(a, "update", host_ok)
    /\ UNCHANGED <<now, redis_client, allowed_domains, redis, pending_sessions, rate_limit_cache,
                   recent_failures, session_created, sessions_consumed,
                   token_verified_at, token_written>>

\* The SETEX of _cache_user_info returns or raises (lines 284-291); the
\* call returns the user id (line 139)
CacheUserInfoReturns(a) ==
    /\ att[a].pc = "cache_user_info"
    /\ att[a].wire.served
    /\ user_cache' = cache_user_info(att[a].user_id, att[a].wire.arg,
                                     att[a].wire.ok)
    /\ att' = [att EXCEPT ![a] = IdleAttempt]
    /\ last' = [att[a].call EXCEPT
                  !.seg = "cache", !.result = "returned",
                  !.returned = att[a].user_id,
                  !.stages = <<"PROVISION", "CACHE_WRITE", "SUCCESS">>]
    /\ UNCHANGED <<now, redis_client, allowed_domains, redis, pending_sessions, rate_limit_cache,
                   accounts, recent_failures, session_created,
                   sessions_consumed, token_verified_at, token_written, ensured>>

\* The answer of Redis reaches call a, which goes on from the call it was
\* blocked in
RedisReplies(a) ==
    CASE att[a].pc = "get_cached_token" -> GetCachedTokenReturns(a)
      [] att[a].pc = "cache_token" -> CacheTokenReturns(a)
      [] att[a].pc = "get_session" -> GetSessionReturns(a)
      [] att[a].pc = "remove_session" -> RemoveSessionReturns(a)
      [] att[a].pc = "cache_user_info" -> CacheUserInfoReturns(a)
      [] OTHER -> FALSE

(***************************************************************************)
(* The pure functions of check_auth applied to an input of their own.      *)
(***************************************************************************)
\* Lines 125-126: the verified identity of call a meets the domain gate; a
\* rejected identity ends the call with the 403 of line 126 and no failure
\* is recorded
CheckDomain(a) ==
    /\ att[a].pc = "is_user_allowed"
    /\ Unblocked
    /\ \E allowed \in {is_user_allowed(att[a].user_info)} :
        /\ att' = IF allowed
                  THEN [att EXCEPT ![a].pc = "map_tf_user_to_matrix"]
                  ELSE [att EXCEPT ![a] = IdleAttempt]
        /\ last' = [NoStep EXCEPT
                      !.seg = "gate", !.attempt = a,
                      !.client_ip = att[a].client_ip,
                      !.user_info = att[a].user_info,
                      !.result = IF allowed THEN "pending" ELSE "403",
                      !.errcode = IF allowed THEN "" ELSE "M_FORBIDDEN"]
    /\ UNCHANGED <<now, redis_client, allowed_domains, redis, pending_sessions, rate_limit_cache,
                   user_cache, accounts, recent_failures, session_created,
                   sessions_consumed, token_verified_at, token_written, ensured>>

\* Line 131: the verified identity of call a is mapped to its user id; an
\* exception of the mapping ends the call with the LoginError(500) of lines
\* 143-145
MapIdentity(a) ==
    /\ att[a].pc = "map_tf_user_to_matrix"
    /\ Unblocked
    /\ \E user_id \in {map_tf_user_to_matrix(att[a].user_info)} :
        /\ att' = IF user_id = AttributeError
                  THEN [att EXCEPT ![a] = IdleAttempt]
                  ELSE [att EXCEPT ![a].pc = "check_user_exists",
                                   ![a].user_id = user_id]
        /\ last' = IF user_id = AttributeError
                   THEN [NoStep EXCEPT
                           !.seg = "map", !.attempt = a,
                           !.client_ip = att[a].client_ip,
                           !.user_info = att[a].user_info,
                           !.result = "500", !.errcode = "M_UNKNOWN"]
                   ELSE [NoStep EXCEPT
                           !.seg = "map", !.attempt = a,
                           !.client_ip = att[a].client_ip,
                           !.user_info = att[a].user_info,
                           !.result = "pending", !.returned = user_id]
    /\ UNCHANGED <<now, redis_client, allowed_domains, redis, pending_sessions, rate_limit_cache,
                   user_cache, accounts, recent_failures, session_created,
                   sessions_consumed, token_verified_at, token_written, ensured>>

(***************************************************************************)
(* The environment: the clock and the out-of-band session flow.            *)
(***************************************************************************)
\* One second passes; Redis drops the keys whose TTL has elapsed
Tick ==
    /\ now < MaxTime
    /\ now' = now + 1
    /\ redis' = [ns \in DOMAIN redis |-> RedisExpire(redis[ns], now + 1)]
    /\ recent_failures' =
           [ip \in DOMAIN recent_failures |->
               SelectSeq(recent_failures[ip],
                         LAMBDA t : (now + 1) - t < rate_limit_window)]
    /\ token_verified_at' =
           [t \in DOMAIN token_verified_at |->
               IF (now + 1) - token_verified_at[t] <= token_cache_ttl
               THEN token_verified_at[t]
               ELSE NeverVerified]
    /\ token_written' =
           [t \in DOMAIN token_written |->
               IF token_written[t] # None
                  /\ (now + 1) - token_written[t].at < token_cache_ttl
               THEN token_written[t]
               ELSE None]
    /\ last' = NoStep
    /\ UNCHANGED <<redis_client, allowed_domains, pending_sessions, rate_limit_cache, user_cache,
                   accounts, att, session_created, sessions_consumed, ensured>>

\* The out-of-band flow creates a pending session under a fresh id, in
\* Redis when the call answers and in the in-process map otherwise; the
\* map is written by the process, which does so when nothing blocks it
CreateSession(session_id, ok_set) ==
    LET session_data == [created_at |-> now]
    IN  /\ session_id \notin DOMAIN session_created
        /\ ~(redis_client /\ ok_set) => Unblocked
        /\ session_created' = Put(session_created, session_id, now)
        /\ IF redis_client /\ ok_set
           THEN /\ redis' = [redis EXCEPT
                      !.session = RedisSet(@, session_id, JsonDumps(session_data))]
                /\ pending_sessions' = pending_sessions
           ELSE /\ pending_sessions' = Put(pending_sessions, session_id, session_data)
                /\ redis' = redis
        /\ last' = NoStep
        /\ UNCHANGED <<now, redis_client, allowed_domains, rate_limit_cache, user_cache, accounts,
                       att, recent_failures, sessions_consumed, token_verified_at,
                       token_written, ensured>>

\* The out-of-band flow deposits the verified identity into a pending
\* session, wherever the record is held
AttachIdentity(session_id, identity) ==
    LET in_redis == session_id \in DOMAIN redis.session
        in_memory == session_id \in DOMAIN pending_sessions
        attach(session_data) == Put(session_data, "user_info", identity)
    IN  /\ in_redis \/ in_memory
        /\ in_memory => Unblocked
        /\ redis' = IF in_redis
                    THEN [redis EXCEPT !.session[session_id].val =
                              JsonDumps(attach(JsonLoads(@)))]
                    ELSE redis
        /\ pending_sessions' =
               IF in_memory
               THEN [pending_sessions EXCEPT ![session_id] = attach(@)]
               ELSE pending_sessions
        /\ \/ redis' # redis
           \/ pending_sessions' # pending_sessions
        /\ last' = NoStep
        /\ UNCHANGED <<now, redis_client, allowed_domains, rate_limit_cache, user_cache, accounts,
                       att, recent_failures, session_created, sessions_consumed,
                       token_verified_at, token_written, ensured>>

(***************************************************************************)
(* The steps of the program, over the inputs a specification allows.       *)
(***************************************************************************)
\* The check_auth calls that clients make
Calls(types, dicts) ==
    \E a \in DOMAIN att, login_type \in types, login_dict \in dicts :
        CheckAuth(a, login_type, login_dict)

\* The answers of the IdP to the requests of line 162
IdPAnswer(resps) ==
    \E a \in DOMAIN att, resp \in resps : IdPAnswers(a, resp)

Login(types, dicts, resps) ==
    \/ Calls(types, dicts)
    \/ IdPAnswer(resps)

\* The Redis round trips of the calls; the calls of fails may raise, with
\* the command carried out or not
RedisAnswers(fails) ==
    \/ \E a \in DOMAIN att, applied \in BOOLEAN, ok \in BOOLEAN :
          /\ att[a].pc \notin fails => ok
          \* a read changes nothing on the server
          /\ att[a].pc \in {"get_cached_token", "get_session"} => applied
          /\ RedisServes(a, applied, ok)
    \/ \E a \in DOMAIN att : RedisReplies(a)

HostAnswers(host_oks) ==
    \/ \E a \in DOMAIN att, host_ok \in host_oks : HostCheckUserExists(a, host_ok)
    \/ \E a \in DOMAIN att, host_ok \in host_oks : HostRegisterUser(a, host_ok)
    \/ \E a \in DOMAIN att, host_ok \in host_oks : HostSetDisplayname(a, host_ok)

SessionFlow(ok_sets) ==
    \/ \E session_id \in SessionIds, ok_set \in ok_sets :
          /\ ~redis_client => ok_set
          /\ CreateSession(session_id, ok_set)
    \/ \E session_id \in SessionIds, identity \in SessionIdentities :
          AttachIdentity(session_id, identity)

(***************************************************************************)
(* The whole program: every login type and request, concurrent calls,      *)
(* every Redis and IdP outcome.                                            *)
(***************************************************************************)
Next ==
    \/ Login(LoginTypes, LoginDicts, IdPResponses)
    \/ RedisAnswers(RedisCalls)
    \/ HostAnswers(BOOLEAN)
    \/ SessionFlow(BOOLEAN)
    \/ Tick

Spec == Init /\ [][Next]_vars

(***************************************************************************)
(* Specifications of one part of the program each.  All use the steps      *)
(* above; they differ in the requests the clients send and in the          *)
(* outcomes of the Redis, IdP and host calls.                              *)
(***************************************************************************)
\* Requests of client c1
DictsOfC1 == {d \in LoginDicts : "client_ip" \in DOMAIN d}

\* Requests that carry no session id, of client c1
TokenDicts == {d \in DictsOfC1 : "session_id" \notin DOMAIN d}

\* Requests of every client whose token, if any, is t2
RateDicts == {d \in LoginDicts : "tf_token" \in DOMAIN d => d["tf_token"] = "t2"}

\* Rate limiter: two clients (c1 and the default "unknown"), requests of
\* every shape, no pending session, Redis calls that answer, and a token
\* the IdP rejects or resolves to an identity outside the allowed domains
NextRateLimit ==
    \/ Login({"tf_connect"}, RateDicts, {"200", "401"})
    \/ RedisAnswers({})
    \/ Tick

SpecRateLimit == InitWith({1}, BOOLEAN) /\ [][NextRateLimit]_vars

\* Login types the host may pass to check_auth: the handled one, the
\* advertised one and the password type
HostLoginTypes == LoginTypes \cup {"m.login.password"}

\* Every login type: two clients, requests of every shape, an IdP that
\* rejects the token
NextAnyType ==
    \/ Login(HostLoginTypes, RateDicts, {"401"})
    \/ RedisAnswers({})
    \/ Tick

SpecAnyType == InitWith({1}, BOOLEAN) /\ [][NextAnyType]_vars

\* Requests of client c1 that carry no session id and no token but t1
CacheDicts == {d \in TokenDicts : "tf_token" \in DOMAIN d => d["tf_token"] = "t1"}

\* Token cache: one client and one token, every Redis and IdP outcome, host
\* provisioning
NextToken ==
    \/ Login({"tf_connect"}, CacheDicts, IdPResponses)
    \/ RedisAnswers(RedisCalls)
    \/ HostAnswers(BOOLEAN)
    \/ Tick

SpecToken == InitWith({1}, BOOLEAN) /\ [][NextToken]_vars

\* Requests of client c1 that carry no session id and no token but t1 or t2
CachePairDicts ==
    {d \in TokenDicts : "tf_token" \in DOMAIN d => d["tf_token"] \in {"t1", "t2"}}

\* Login decision: one client, tokens t1 and t2, Redis calls that answer
\* but for the write of the profile, which answers or raises, host calls
\* that answer or raise
NextLogin ==
    \/ Login({"tf_connect"}, CachePairDicts, {"200", "401"})
    \/ RedisAnswers({"cache_user_info"})
    \/ HostAnswers(BOOLEAN)
    \/ Tick

SpecLogin == InitWith({1}, BOOLEAN) /\ [][NextLogin]_vars

\* Session flow: one client, requests of every shape, every Redis outcome,
\* an IdP that rejects every token, host provisioning
NextSession ==
    \/ Login({"tf_connect"}, DictsOfC1, {"401", "500", "timeout"})
    \/ RedisAnswers(RedisCalls)
    \/ HostAnswers(BOOLEAN)
    \/ SessionFlow(BOOLEAN)
    \/ Tick

SpecSession == InitWith({1}, BOOLEAN) /\ [][NextSession]_vars

\* Cache store: one client, two tokens with different identities, token
\* cache calls that answer or raise, an IdP that answers 200 (with or
\* without claims) or 401, a host that answers
NextCache ==
    \/ Login({"tf_connect"}, CachePairDicts, {"200", "200empty", "401"})
    \/ RedisAnswers({"get_cached_token", "cache_token"})
    \/ HostAnswers({TRUE})
    \/ Tick

SpecCache == InitWith({1}, BOOLEAN) /\ [][NextCache]_vars

\* Requests of client c1 that carry no session id and no token but t1 or t3
ProvisionDicts ==
    {d \in TokenDicts : "tf_token" \in DOMAIN d => d["tf_token"] \in {"t1", "t3"}}

\* Provisioning in sequence: one call at a time, an IdP that answers 200,
\* Redis calls that answer, a host that answers
NextProvision ==
    \/ Login({"tf_connect"}, ProvisionDicts, {"200"})
    \/ RedisAnswers({})
    \/ HostAnswers({TRUE})
    \/ Tick

SpecProvision == InitWith({1}, BOOLEAN) /\ [][NextProvision]_vars

\* Requests as the browser callback resource posts them, and requests with
\* the field tf_token, all with token t1
AdvertisedDicts ==
    CacheDicts \cup {d \in CallbackDicts : d["tf_connect_token"] = "t1"}

\* Login types: the advertised type and the handled type, with both shapes
\* of request
NextAdvertised ==
    \/ Login(LoginTypes, AdvertisedDicts, {"200", "401"})
    \/ RedisAnswers({})
    \/ HostAnswers({TRUE})
    \/ Tick

SpecAdvertised == InitWith({1}, BOOLEAN) /\ [][NextAdvertised]_vars

\* Requests of client c1 that carry no token
SessionDicts == {d \in DictsOfC1 : "tf_token" \notin DOMAIN d}

\* Pending sessions: one client, requests by session id, session store
\* calls that answer or raise, a host that answers
NextPending ==
    \/ Calls({"tf_connect"}, SessionDicts)
    \/ RedisAnswers({"get_session", "remove_session"})
    \/ HostAnswers({TRUE})
    \/ SessionFlow(BOOLEAN)
    \/ Tick

SpecPending == InitWith({1}, BOOLEAN) /\ [][NextPending]_vars

\* Requests of client c1 and of a client without address, with token t1 or
\* without credential
ConcurrentDicts ==
    {d \in LoginDicts : /\ "session_id" \notin DOMAIN d
                        /\ "tf_token" \in DOMAIN d => d["tf_token"] = "t1"}

\* Concurrent calls: two check_auth calls in flight, interleaved at the
\* awaits of the host calls; Redis and the host answer, the IdP accepts or
\* rejects the token
NextConcurrent ==
    \/ Login({"tf_connect"}, ConcurrentDicts, {"200", "401"})
    \/ RedisAnswers({})
    \/ HostAnswers({TRUE})
    \/ Tick

SpecConcurrent == InitWith(Attempts, {TRUE}) /\ [][NextConcurrent]_vars

\* The host answers the call that check_auth call a is waiting for
HostStepOf(a) ==
    \E host_ok \in BOOLEAN :
        \/ HostCheckUserExists(a, host_ok)
        \/ HostRegisterUser(a, host_ok)
        \/ HostSetDisplayname(a, host_ok)

\* requests.get of check_auth call a returns or raises (timeout=10, line 165)
IdPStepOf(a) ==
    \E resp \in {"200", "timeout"} : IdPAnswers(a, resp)

\* Redis handles the command of check_auth call a, or its answer arrives
RedisStepOf(a) ==
    \/ RedisServes(a, TRUE, TRUE)
    \/ RedisReplies(a)

\* Two calls in flight, an IdP request that returns or times out, Redis
\* calls that answer, and a host that answers or raises
NextLive ==
    \/ Login({"tf_connect"}, CacheDicts, {"200", "timeout"})
    \/ RedisAnswers({})
    \/ HostAnswers(BOOLEAN)
    \/ Tick

\* Termination: every IdP request, every Redis call and every host call
\* that is waited for is answered in the end.  A call that is blocked runs
\* until its answer comes (weak fairness).  A call suspended at an await
\* cannot go on while another call blocks the process, and the event loop
\* resumes it in its turn once the host has answered, however often other
\* calls block the process meanwhile (strong fairness).
SpecLive ==
    /\ InitWith(Attempts, {TRUE})
    /\ [][NextLive]_vars
    /\ \A a \in Attempts : /\ SF_vars(HostStepOf(a))
                           /\ WF_vars(IdPStepOf(a))
                           /\ WF_vars(RedisStepOf(a))

\* Termination with a Redis server that may stop answering: the same
\* steps, but the client of line 59 is built without socket_timeout, so
\* nothing makes a Redis call (lines 284, 301, 316, 328, 339) return; the
\* call is synchronous, so nothing else of the process runs meanwhile
SpecStall ==
    /\ InitWith(Attempts, {TRUE})
    /\ [][NextLive]_vars
    /\ \A a \in Attempts : SF_vars(HostStepOf(a)) /\ WF_vars(IdPStepOf(a))

\* Names an identity can carry: every text of at most MaxName characters
\* over letters of both cases and the three punctuation marks of line 209
NameChars == {"J", "j", ".", "@", "_"}

MaxName == 2

Names == UNION {[1..n -> NameChars] : n \in 0..MaxName}

\* Identities that pass the domain gate: doubleName absent, null or any
\* name, username absent or set
MapperIdentities ==
    {[k \in ks |-> CASE k = "email" -> <<"k", "@", "a">> [] k = "doubleName" -> dn
                      [] k = "username" -> un] :
        ks \in {{"email"} \cup f : f \in SUBSET {"doubleName", "username"}},
        dn \in Names \cup {JsonNull}, un \in {<<"B", ".", "b">>}}

\* check_auth at line 131: an identity has been verified and has passed the
\* domain gate
InitMapper ==
    /\ now = 0
    /\ redis_client = TRUE
    /\ allowed_domains = {<<"a">>}
    /\ redis = [token |-> EmptyDict, user |-> EmptyDict, session |-> EmptyDict]
    /\ pending_sessions = EmptyDict
    /\ rate_limit_cache = EmptyDict
    /\ user_cache = EmptyDict
    /\ accounts = EmptyDict
    /\ \E user_info \in MapperIdentities :
        att = <<[pc |-> "map_tf_user_to_matrix", user_id |-> <<>>,
                 user_info |-> user_info, client_ip |-> "c1",
                 call |-> NoStep, wire |-> NoCommand]>>
    /\ recent_failures = [ip \in ClientIPs \cup {"unknown"} |-> <<>>]
    /\ session_created = EmptyDict
    /\ sessions_consumed = {}
    /\ token_verified_at = [t \in Tokens |-> NeverVerified]
    /\ token_written = [t \in Tokens |-> None]
    /\ ensured = EmptyDict
    /\ last = NoStep

\* _map_tf_user_to_matrix on every identity
NextMapper ==
    \/ \E a \in DOMAIN att : MapIdentity(a)
    \/ Tick

SpecMapper == InitMapper /\ [][NextMapper]_vars

\* Email texts: every text of at most MaxEmail characters over letters of
\* both cases and '@'
EmailChars == {"a", "A", "b", "@"}

MaxEmail == 3

Emails == UNION {[1..n -> EmailChars] : n \in 0..MaxEmail}

\* Verified identities: a doubleName, and an email absent or any text
GateIdentities ==
    {[doubleName |-> <<"e">>]}
        \cup {[doubleName |-> <<"e">>, email |-> em] : em \in Emails}

\* Values of the setting allowed_domains: none, one domain, two domains
DomainSettings == {{}, {<<"a">>}, {<<"a">>, <<"b">>}}

\* check_auth at line 125, in a provider with any of the settings: an
\* identity has been verified
InitGate ==
    /\ now = 0
    /\ redis_client = TRUE
    /\ allowed_domains \in DomainSettings
    /\ redis = [token |-> EmptyDict, user |-> EmptyDict, session |-> EmptyDict]
    /\ pending_sessions = EmptyDict
    /\ rate_limit_cache = EmptyDict
    /\ user_cache = EmptyDict
    /\ accounts = EmptyDict
    /\ \E user_info \in GateIdentities :
        att = <<[pc |-> "is_user_allowed", user_id |-> <<>>,
                 user_info |-> user_info, client_ip |-> "c1",
                 call |-> NoStep, wire |-> NoCommand]>>
    /\ recent_failures = [ip \in ClientIPs \cup {"unknown"} |-> <<>>]
    /\ session_created = EmptyDict
    /\ sessions_consumed = {}
    /\ token_verified_at = [t \in Tokens |-> NeverVerified]
    /\ token_written = [t \in Tokens |-> None]
    /\ ensured = EmptyDict
    /\ last = NoStep

\* _is_user_allowed on every identity, under every setting
NextGate ==
    \/ \E a \in DOMAIN att : CheckDomain(a)
    \/ Tick

SpecGate == InitGate /\ [][NextGate]_vars

\* Identity claims: every combination of the fields name, doubleName and
\* email being absent, empty or set
EnsureIdentities ==
    {[k \in ks |-> CASE k = "name" -> nm [] k = "doubleName" -> <<"j", "_", "d">>
                      [] k = "email" -> em] :
        ks \in SUBSET {"name", "doubleName", "email"},
        nm \in {<<>>, <<"N">>}, em \in {<<>>, <<"k", "@", "a">>}}

\* An account the host already holds: registered earlier, with a password
OldAccount ==
    [displayname |-> <<"O">>, emails |-> <<<<"o", "@", "a">>>>,
     password |-> <<"p">>]

\* check_auth at line 134, in a provider without domain restriction or
\* with the allowed domain a: an identity has been verified (it is not
\* empty, line 122), has passed the domain gate (line 127) and has been
\* mapped, and _ensure_user_exists is awaiting check_user_exists; the host
\* holds the account of that user id or not
InitEnsure ==
    /\ now = 0
    /\ redis_client = TRUE
    /\ allowed_domains \in {{}, {<<"a">>}}
    /\ redis = [token |-> EmptyDict, user |-> EmptyDict, session |-> EmptyDict]
    /\ pending_sessions = EmptyDict
    /\ rate_limit_cache = EmptyDict
    /\ user_cache = EmptyDict
    /\ \E user_info \in {u \in EnsureIdentities :
                                Truthy(u) /\ is_user_allowed(u)} :
       \E user_id \in {map_tf_user_to_matrix(user_info)} :
        /\ att = <<[pc |-> "check_user_exists", user_id |-> user_id,
                    user_info |-> user_info, client_ip |-> "c1",
                 call |-> NoStep, wire |-> NoCommand]>>
        /\ accounts \in {EmptyDict, [u \in {user_id} |-> OldAccount]}
    /\ recent_failures = [ip \in ClientIPs \cup {"unknown"} |-> <<>>]
    /\ session_created = EmptyDict
    /\ sessions_consumed = {}
    /\ token_verified_at = [t \in Tokens |-> NeverVerified]
    /\ token_written = [t \in Tokens |-> None]
    /\ ensured = EmptyDict
    /\ last = NoStep

\* _ensure_user_exists on every identity the gate lets through, with a host
\* that answers or raises
NextEnsure ==
    \/ HostAnswers(BOOLEAN)
    \/ RedisAnswers({"cache_user_info"})
    \/ Tick

SpecEnsure == InitEnsure /\ [][NextEnsure]_vars

(***************************************************************************)
(* Properties.                                                             *)
(***************************************************************************)
\* The latest step has ended the part of a handled check_auth call that
\* comes before provisioning: the call itself, or the answer of the IdP to
\* its request
Started == last.seg = "start" /\ last.login_type = "tf_connect"

\* C1: once max_login_attempts failed verifications of a client have been
\* recorded inside the last rate_limit_window seconds, the next check_auth
\* call of that client is rejected with 429 and makes no token-cache
\* lookup, no IdP request and no session lookup.
C1_RateLimitedBeforeVerification ==
    (Started /\ last.recent_before >= max_login_attempts) =>
        /\ last.result = "429"
        /\ last.errcode = "M_LIMIT_EXCEEDED"
        /\ last.token_lookups = 0
        /\ last.idp_requests = 0
        /\ last.session_lookups = 0

C1_Witness ==
    /\ Started
    /\ last.recent_before >= max_login_attempts
    /\ last.tf_token # ""
    /\ last.result = "429"

\* C2: a pending session is consumed at most once: once a verification of
\* a session id has returned an identity, every later verification of
\* that session id returns absent.
C2_SessionConsumedAtMostOnce ==
    (Started /\ last.session_lookups = 1 /\ last.consumed_before) =>
        ~Truthy(last.user_info)

\* The session was created more than session_timeout seconds ago
SessionExpired(session_id) ==
    /\ session_id \in DOMAIN session_created
    /\ now - session_created[session_id] > session_timeout

\* C3 as claimed: a verification of an expired session returns absent and
\* leaves the session in no tier.
C3_ExpiredSessionDeletedEverywhere ==
    (Started /\ last.session_lookups = 1 /\ SessionExpired(last.session_id)) =>
        /\ ~Truthy(last.user_info)
        /\ last.session_id \notin DOMAIN redis.session
        /\ last.session_id \notin DOMAIN pending_sessions

\* C3 as amended: every verification of an expired session returns absent
\* (so do all later ones, the clock never going back), whether or not an
\* identity was attached.  When the lookup finds the record, it is removed
\* from the in-process map, and it is removed from Redis when the Redis
\* delete answers; a delete that raises says nothing about Redis, which
\* holds the record or not.  The lookup does not find a record of the
\* in-process map when the Redis read answers, nor a record of Redis when
\* the Redis read fails or was handled before the record was stored; no
\* delete is issued then.
C3_ExpiredSessionNeverVerified ==
    (Started /\ last.session_lookups = 1 /\ SessionExpired(last.session_id)) =>
        /\ ~Truthy(last.user_info)
        /\ last.result = "401"
        /\ last.session_removes = 1 =>
              /\ last.session_id \notin DOMAIN pending_sessions
              /\ (redis_client /\ last.redis_ok.del) =>
                     last.session_id \notin DOMAIN redis.session
        /\ last.session_removes = 0 =>
              /\ last.session_id \in DOMAIN pending_sessions =>
                     (redis_client /\ last.redis_ok.get)
              /\ last.session_id \in DOMAIN redis.session =>
                     \/ ~last.redis_ok.get
                     \/ session_created[last.session_id] >= last.served_at

C3_Witness ==
    /\ Started
    /\ last.session_lookups = 1
    /\ SessionExpired(last.session_id)
    /\ last.session_id \in sessions_consumed
    /\ last.session_removes = 1
    /\ redis_client
    /\ last.session_id \notin DOMAIN redis.session
    /\ last.session_id \notin DOMAIN pending_sessions

\* C4 as claimed: parameter validation precedes the rate check, so a
\* request with neither token nor session id fails as missing-parameter
\* even when its client is over the rate limit.
C4_ParametersBeforeRateCheck ==
    (Started /\ last.tf_token = "" /\ last.session_id = "") =>
        last.result = "400"

StageOrder ==
    <<"RATE_CHECK", "RECEIVED", "CREDENTIAL_VERIFY", "DOMAIN_CHECK",
      "IDENTITY_MAP", "PROVISION", "CACHE_WRITE", "SUCCESS">>

\* C4 as amended: the stages run in the order RATE_CHECK, RECEIVED
\* (parameter validation), CREDENTIAL_VERIFY, DOMAIN_CHECK, IDENTITY_MAP,
\* PROVISION, CACHE_WRITE, SUCCESS and stop at the first negative outcome;
\* the rate check precedes parameter validation, so a request with neither
\* token nor session id fails as rate-limited when its client is over the
\* limit and as missing-parameter otherwise.
C4_StagesInOrder ==
    /\ Started =>
        /\ \E n \in 1..5 : last.stages = SubSeq(StageOrder, 1, n)
        /\ last.recent_before >= max_login_attempts =>
               (last.result = "429" /\ Len(last.stages) = 1)
        /\ (last.recent_before < max_login_attempts
              /\ last.tf_token = "" /\ last.session_id = "") =>
               (last.result = "400" /\ Len(last.stages) = 2)
        /\ last.result = "401" <=>
               (Len(last.stages) = 3 /\ ~Truthy(last.user_info))
        /\ last.result = "403" <=>
               (Len(last.stages) = 4 /\ Truthy(last.user_info))
        /\ last.result = "pending" <=>
               (Len(last.stages) = 5 /\ Truthy(last.user_info))
        /\ last.result = "pending" <=> att[last.attempt].pc = "check_user_exists"
    \* a call blocked in the token cache, the IdP or the session store is
    \* verifying the credential
    /\ (last.seg \in {"request", "redis"} /\ last.login_type = "tf_connect") =>
        /\ last.stages = SubSeq(StageOrder, 1, 2)
        /\ last.result \in BlockingCalls \ {"cache_user_info"}
    /\ last.seg \in {"exists", "register", "update", "cache"} =>
        /\ last.result = "500" <=> (~last.host_ok /\ last.stages = SubSeq(StageOrder, 6, 6))
        /\ last.result = "pending" =>
               (last.seg = "exists" /\ last.stages = SubSeq(StageOrder, 6, 6))
        \* the provisioned call is blocked in the write of the profile cache
        /\ last.result = "cache_user_info" =>
               /\ last.seg \in {"register", "update"}
               /\ last.host_ok
               /\ last.stages = SubSeq(StageOrder, 6, 6)
        /\ last.result = "returned" <=> last.stages = SubSeq(StageOrder, 6, 8)
        /\ last.seg = "cache" => last.result = "returned"
        /\ last.result \in {"500", "pending", "cache_user_info", "returned"}

C4_Witness ==
    /\ Started
    /\ last.recent_before >= max_login_attempts
    /\ last.tf_token = ""
    /\ last.session_id = ""
    /\ last.result = "429"

\* C5: a request with neither token nor session id, and a request with
\* both, end as missing-parameter (400) without any verifier call.
C5_ExactlyOneCredential ==
    (Started /\ (last.tf_token = "" <=> last.session_id = "")) =>
        /\ last.result = "400"
        /\ last.token_lookups = 0
        /\ last.idp_requests = 0
        /\ last.session_lookups = 0

\* C6: whenever credential verification returns absent, check_auth appends
\* exactly one timestamp (the current time) to the window of that client,
\* changes no other client's window, and fails with invalid-credential.
C6_FailureRecordedOnce ==
    [][(/\ last'.seg = "start"
        /\ last'.token_lookups + last'.session_lookups = 1
        /\ ~Truthy(last'.user_info)) =>
          LET c == last'.client_ip
              before == Get(rate_limit_cache, c, <<>>)
              after == Get(rate_limit_cache', c, <<>>)
          IN  /\ last'.result = "401"
              /\ last'.errcode = "M_FORBIDDEN"
              /\ after # <<>>
              /\ after[Len(after)] = now
              /\ RecentAttempts(after, now) = RecentAttempts(before, now) + 1
              /\ \A ip \in DOMAIN rate_limit_cache' \ {c} :
                     /\ ip \in DOMAIN rate_limit_cache
                     /\ rate_limit_cache'[ip] = rate_limit_cache[ip]
      ]_vars

\* A failed verification of a pending session that has no identity yet
C6_Witness ==
    /\ Started
    /\ last.session_lookups = 1
    /\ last.result = "401"
    /\ last.session_id \in DOMAIN session_created
    /\ ~SessionExpired(last.session_id)
    /\ RecentAttempts(rate_limit_cache[last.client_ip], now) = 2

\* The e-mail domain of the identity is not one of allowed_domains
OutsideAllowedDomains(user_info) ==
    /\ allowed_domains # {}
    /\ \/ Get(user_info, "email", <<>>) = <<>>
       \/ Lower(SplitLast(user_info.email, "@")) \notin allowed_domains

\* C7: when the domain gate rejects a verified identity, check_auth fails
\* with forbidden (403), appends nothing to any rate-limit window, starts
\* no provisioning, changes no host account and writes no user-profile
\* cache entry.
C7_DomainGateRejects ==
    [][(/\ last'.seg = "start"
        /\ Truthy(last'.user_info)
        /\ OutsideAllowedDomains(last'.user_info)) =>
          /\ last'.result = "403"
          /\ last'.errcode = "M_FORBIDDEN"
          /\ att' = [att EXCEPT ![last'.attempt] = IdleAttempt]
          /\ accounts' = accounts
          /\ user_cache' = user_cache
          /\ redis'.user = redis.user
          /\ \A ip \in DOMAIN rate_limit_cache' :
                 /\ ip \in DOMAIN rate_limit_cache
                 /\ rate_limit_cache'[ip] = rate_limit_cache[ip]
      ]_vars

C7_Witness ==
    /\ Started
    /\ last.user_info = IdEve
    /\ last.result = "403"
    /\ accounts # EmptyDict

\* C8: a failure of the host account store during the existence check, the
\* create or the display-name update ends the login with the internal
\* error (500, M_UNKNOWN): no account id is returned, no user-profile
\* cache entry is written, no rate-limit failure is recorded and no
\* account changes.
C8_ProvisioningFailureAborts ==
    [][(/\ last'.seg \in {"exists", "register", "update"}
        /\ ~last'.host_ok) =>
          /\ last'.result = "500"
          /\ last'.errcode = "M_UNKNOWN"
          /\ last'.returned = <<>>
          /\ att'[last'.attempt].pc = "idle"
          /\ user_cache' = user_cache
          /\ redis'.user = redis.user
          /\ rate_limit_cache' = rate_limit_cache
          /\ accounts' = accounts
      ]_vars

C8_Witness ==
    /\ last.seg = "update"
    /\ ~last.host_ok
    /\ last.result = "500"

\* The token namespace of Redis holds an entry for the token whose TTL has
\* not elapsed
LiveTokenEntry(token) ==
    /\ Sha256Hex(token) \in DOMAIN redis.token
    /\ now < redis.token[Sha256Hex(token)].exp

\* C9: a token verification without a cache hit sends exactly one IdP
\* request; when the answer is 401, another non-200 status, or a network
\* error or timeout, the verification returns absent (the login fails with
\* 401, not with an internal error) and the token cache is left as it was.
C9_FailedVerificationFailsClosed ==
    [][(last'.seg \in {"start", "request", "redis"} /\ last'.token_lookups = 1) =>
          LET a == last'.attempt
              \* the step is the return of a cache lookup without a hit
              no_hit == /\ att[a].pc = "get_cached_token"
                        /\ att[a].wire.served
                        /\ ~Truthy(att[a].wire.val)
          IN  /\ last'.idp_requests \in {0, 1}
              /\ att[a].pc # "idle" => last'.idp_requests >= att[a].call.idp_requests
              /\ last'.result = "requests_get" <=>
                     (no_hit \/ (att[a].pc = "idle" /\ ~redis_client))
              /\ last'.result = "requests_get" =>
                     (last'.idp_requests = 1 /\ att'[a].pc = "requests_get")
              \* a verification that ends without a request has had a hit
              /\ (last'.seg = "start" /\ last'.idp_requests = 0) =>
                     Truthy(last'.user_info)
              /\ (att[a].pc = "requests_get"
                    /\ last'.idp_response \in {"401", "500", "timeout"}) =>
                     /\ ~Truthy(last'.user_info)
                     /\ last'.result = "401"
                     /\ att'[a].pc = "idle"
                     /\ redis'.token = redis.token
      ]_vars

C9_Witness ==
    /\ Started
    /\ last.token_lookups = 1
    /\ last.idp_response = "500"
    /\ last.result = "401"
    /\ redis.token = EmptyDict

\* C10: after the IdP has answered 200 for a token, a verification of the
\* same token inside token_cache_ttl is served from the token cache and
\* sends no IdP request.
C10_VerifiedTokenServedFromCache ==
    (Started /\ last.token_lookups = 1 /\ last.verified_before) =>
        last.idp_requests = 0

\* C11: while the primary store is unavailable every cache operation is
\* served by the in-process fallback: a token whose identity was written
\* (the IdP answered 200) while Redis was unreachable is read back inside
\* token_cache_ttl without an IdP request, and a user profile written while
\* Redis is unreachable or failing is held by the in-process map.
C11_FallbackServesEveryNamespace ==
    /\ (Started /\ last.token_lookups = 1 /\ last.verified_before /\ ~redis_client) =>
          /\ last.idp_requests = 0
          /\ last.user_info = IdPDirectory(last.tf_token)
    /\ (/\ last.seg \in {"register", "update", "cache"}
        /\ last.result = "returned"
        /\ (~redis_client \/ ~last.redis_ok.set)) =>
          last.returned \in DOMAIN user_cache

\* C12: while Redis is reachable, a read of the token cache returns, for
\* every token, exactly the identity that was last written under that token
\* when the write is less than token_cache_ttl seconds old, and absent
\* otherwise: after the TTL has elapsed, and for a token under which
\* nothing was written, whatever was written under other tokens.  A write
\* is one that Redis applied, whether its reply came back or was lost.
C12_TokenCacheRoundTrip ==
    redis_client =>
        \A tok \in Tokens :
            get_cached_token(tok, TRUE) =
                IF /\ token_written[tok] # None
                   /\ now - token_written[tok].at < token_cache_ttl
                THEN token_written[tok].user_info
                ELSE None

\* t1 is read back one second after its write, whose reply was lost,
\* while t2, verified earlier, has expired
C12_Witness ==
    /\ redis_client
    /\ token_written["t1"] # None
    /\ token_written["t1"].raised
    /\ now = token_written["t1"].at + 1
    /\ get_cached_token("t1", TRUE) = IdJo
    /\ token_written["t2"] = None
    /\ token_verified_at["t2"] = NeverVerified
    /\ get_cached_token("t2", TRUE) = None
    /\ accounts # EmptyDict

\* C13 as claimed: no token or user cache entry, in Redis or in the
\* in-process map, is stored longer than its TTL after it was written.
C13_NoEntryOutlivesItsTTL ==
    /\ \A k \in DOMAIN redis.token : now <= redis.token[k].exp
    /\ \A k \in DOMAIN redis.user : now <= redis.user[k].exp
    /\ \A user_id \in DOMAIN user_cache :
           now - user_cache[user_id].cached_at <= user_cache_ttl

\* What the IdP or the out-of-band flow can give as identity claims; none
\* of them holds a token
IdentityClaims ==
    {IdPDirectory(t) : t \in Tokens} \cup SessionIdentities \cup {EmptyDict}

\* C14: no cache key and no cache value of any tier is or holds a raw
\* token: every key of the token namespace is the digest of a token and not
\* a token, its value is identity claims; the user entries are keyed by the
\* user id and hold identity claims and the time of the write; the session
\* entries are keyed by the session id.
C14_NoRawCredentialStored ==
    /\ \A k \in DOMAIN redis.token :
           /\ k \notin Tokens
           /\ \E t \in Tokens : k = Sha256Hex(t)
           /\ JsonLoads(redis.token[k].val) \in IdentityClaims
    /\ \A k \in DOMAIN redis.user :
           LET cache_data == JsonLoads(redis.user[k].val)
           IN  /\ DOMAIN cache_data = {"user_info", "cached_at"}
               /\ cache_data.user_info \in IdentityClaims
               /\ cache_data.cached_at \in 0..now
               /\ k = map_tf_user_to_matrix(cache_data.user_info)
    /\ \A k \in DOMAIN user_cache :
           /\ DOMAIN user_cache[k] = {"user_info", "cached_at"}
           /\ user_cache[k].user_info \in IdentityClaims
           /\ user_cache[k].cached_at \in 0..now
           /\ k = map_tf_user_to_matrix(user_cache[k].user_info)
    /\ DOMAIN redis.session \subseteq SessionIds
    /\ DOMAIN pending_sessions \subseteq SessionIds

C14_Witness ==
    /\ Sha256Hex("t1") \in DOMAIN redis.token
    /\ Sha256Hex("t2") \in DOMAIN redis.token
    /\ redis.user # EmptyDict

\* C15: a failing cache write never fails the login.  When the token write
\* fails after a 200 answer the call goes on to the domain gate; when the
\* user-profile write fails or Redis is absent, check_auth returns the
\* account id and the in-process map then holds the profile of that id,
\* whether or not Redis stored the write that raised.
C15_CacheWriteFailureNotEscalated ==
    [][/\ (/\ last'.seg = "start"
           /\ last'.idp_response = "200"
           /\ (~redis_client \/ ~last'.redis_ok.set)) =>
             last'.result \in {"pending", "403"}
       \* the call returns, at once without Redis and else when the failed
       \* write returns; the entry holds the time read before the write
       /\ (/\ last'.seg \in {"register", "update", "cache"}
           /\ last'.host_ok
           /\ (~redis_client \/ ~last'.redis_ok.set)) =>
             /\ last'.result = "returned"
             /\ last'.returned = att[last'.attempt].user_id
             /\ att'[last'.attempt].pc = "idle"
             /\ last'.returned \in DOMAIN user_cache'
             /\ user_cache'[last'.returned] =
                    IF last'.seg = "cache"
                    THEN att[last'.attempt].wire.arg
                    ELSE [user_info |-> last'.user_info, cached_at |-> now]
             /\ user_cache'[last'.returned].user_info = last'.user_info
      ]_vars

\* Both writes of a login raised: the write of the token was not stored and
\* the write of the profile was stored by Redis before it raised
C15_Witness ==
    /\ last.seg = "cache"
    /\ last.result = "returned"
    /\ redis_client
    /\ ~last.redis_ok.set
    /\ last.applied
    /\ last.returned \in DOMAIN user_cache
    /\ last.returned \in DOMAIN redis.user
    /\ redis.token = EmptyDict

\* The login types get_supported_login_types advertises for the IdP
AdvertisedTypes == DOMAIN get_supported_login_types \ {"m.login.password"}

\* C16: a login of an advertised type that carries the credential in the
\* advertised field is neither ignored (None) nor rejected as
\* missing-parameter.
C16_AdvertisedLoginConsumed ==
    (/\ last.seg = "start"
     /\ last.login_type \in AdvertisedTypes
     /\ \E i \in DOMAIN get_supported_login_types[last.login_type] :
            get_supported_login_types[last.login_type][i] \in DOMAIN last.login_dict) =>
        /\ last.result # "None"
        /\ last.result # "400"

\* C17: with one call at a time, register_user is issued only by the first
\* _ensure_user_exists of a user id; the calls after it issue
\* set_displayname only, the host holds the account under that user id, and
\* a call with the identity of the first call leaves the account as the
\* first call left it.
C17_SequentialEnsureIdempotent ==
    /\ \A a \in DOMAIN att :
           att[a].pc = "register_user" => att[a].user_id \notin DOMAIN ensured
    /\ \A user_id \in DOMAIN ensured :
           /\ user_id \in DOMAIN accounts
           /\ (/\ last.seg \in {"register", "update", "cache"}
               /\ last.returned = user_id
               /\ last.user_info = ensured[user_id].user_info) =>
                  accounts[user_id] = ensured[user_id].account

\* C18: every step that ends a handled check_auth call ends it with the
\* account id or with a LoginError of one of the four classes: 400
\* M_MISSING_PARAM for a request without credential, 429 M_LIMIT_EXCEEDED
\* for a rate-limited client, M_FORBIDDEN (401 or 403) for an absent
\* identity or a domain-gate rejection, 500 M_UNKNOWN for a failure of the
\* host account store; nothing else leaves check_auth.
C18_TypedOutcome ==
    (/\ last.seg \notin {"none", "request", "redis"}
     /\ last.seg = "start" => last.login_type = "tf_connect") =>
        /\ \/ /\ last.result = "pending"
              /\ att[last.attempt].pc # "idle"
           \* the call is not ended: it is writing the profile cache
           \/ /\ last.result = "cache_user_info"
              /\ att[last.attempt].pc = "cache_user_info"
           \/ /\ last.result = "returned"
              /\ last.errcode = ""
              /\ last.returned = map_tf_user_to_matrix(last.user_info)
           \/ /\ last.result = "400"
              /\ last.errcode = "M_MISSING_PARAM"
              /\ last.tf_token = "" /\ last.session_id = ""
           \/ /\ last.result = "429"
              /\ last.errcode = "M_LIMIT_EXCEEDED"
              /\ last.recent_before >= max_login_attempts
           \/ /\ last.result = "401"
              /\ last.errcode = "M_FORBIDDEN"
              /\ ~Truthy(last.user_info)
           \/ /\ last.result = "403"
              /\ last.errcode = "M_FORBIDDEN"
              /\ OutsideAllowedDomains(last.user_info)
           \/ /\ last.result = "500"
              /\ last.errcode = "M_UNKNOWN"
        /\ last.result \notin {"pending", "cache_user_info"} =>
               att[last.attempt].pc = "idle"
        /\ (last.seg # "start" /\ ~last.host_ok) => last.result = "500"

C18_Witness ==
    /\ last.seg = "register"
    /\ ~last.host_ok
    /\ last.result = "500"
    /\ last.errcode = "M_UNKNOWN"
    /\ Len(Get(rate_limit_cache, last.client_ip, <<>>)) >= 1

\* C19: the rate check lets a call of a client pass iff fewer than
\* max_login_attempts failures of that client were recorded less than
\* rate_limit_window seconds ago; older failures, still stored, do not
\* count.
C19_AllowIffBelowLimit ==
    LET stored == RecentAttempts(Get(rate_limit_cache, last.client_ip, <<>>), now)
                      - (IF last.result = "401" THEN 1 ELSE 0)
        \* the latest step is the one in which the call ran its rate check
        checks == /\ last.login_type = "tf_connect"
                  /\ \/ /\ last.seg = "start"
                        /\ \/ last.result \in {"429", "400"}
                           \/ ~redis_client /\ last.idp_requests = 0
                     \/ /\ last.seg = "request"
                        /\ \/ last.result \in {"get_cached_token", "get_session"}
                           \/ ~redis_client /\ last.result = "requests_get"
    IN  /\ checks =>
            /\ last.result # "429" <=> last.recent_before < max_login_attempts
            /\ last.recent_before = stored
        \* the check is at the time of the call; of the failures it counted,
        \* some may have left the window when Redis or the IdP answers
        /\ Started =>
            /\ last.result # "429" <=> last.recent_before < max_login_attempts
            /\ last.recent_before >= stored

\* A call passes the rate check although three failures are stored
C19_Witness ==
    /\ Started
    /\ last.result = "401"
    /\ last.recent_before = 1
    /\ Len(rate_limit_cache[last.client_ip]) = 3

\* C20 as claimed: after the rate check of a call, the stored window of
\* its client holds no timestamp older than rate_limit_window seconds.
C20_StoredWindowPruned ==
    (Started /\ last.client_ip \in DOMAIN rate_limit_cache) =>
        \A i \in 1..Len(rate_limit_cache[last.client_ip]) :
            now - rate_limit_cache[last.client_ip][i] <= rate_limit_window

\* The record of a pending session, in the tier that holds it
SessionRecord(session_id) ==
    IF session_id \in DOMAIN redis.session
    THEN JsonLoads(redis.session[session_id].val)
    ELSE Get(pending_sessions, session_id, None)

\* C21 as claimed: a verification of a pending session inside
\* session_timeout returns absent while no identity is attached, and
\* exactly the attached identity once the out-of-band flow has attached one.
C21_AttachedIdentityReturned ==
    (/\ Started
     /\ last.session_lookups = 1
     /\ last.session_id \in DOMAIN session_created
     /\ ~SessionExpired(last.session_id)) =>
        LET session_data == SessionRecord(last.session_id)
        IN  /\ session_data # None
            /\ last.user_info = Get(session_data, "user_info", None)

\* C21 as amended: a verification inside session_timeout leaves the session
\* in place; it returns exactly the attached identity when the lookup reads
\* the tier that holds the session (Redis when the Redis read answers, the
\* in-process map when Redis is absent or the read fails) and the identity
\* was attached when that tier was read, and absent otherwise.
C21_IdentityReturnedFromTierRead ==
    [][(/\ last'.seg = "start"
        /\ last'.login_type = "tf_connect"
        /\ last'.session_lookups = 1
        /\ last'.session_id \in DOMAIN session_created
        /\ ~SessionExpired(last'.session_id)) =>
          LET a == last'.attempt
              session_id == last'.session_id
              session_data == SessionRecord(session_id)
              attached == Get(session_data, "user_info", None)
              read_redis == redis_client /\ last'.redis_ok.get
              in_redis == session_id \in DOMAIN redis.session
              \* Redis holds the record as it was when it handled the read
              as_read == /\ in_redis
                         /\ att[a].wire.val = redis.session[session_id].val
          IN  /\ last'.session_removes = 0
              /\ redis'.session = redis.session
              /\ pending_sessions' = pending_sessions
              /\ session_data # None
              /\ last'.user_info \in {None, attached}
              /\ (read_redis /\ as_read) => last'.user_info = attached
              /\ (~read_redis /\ ~in_redis) => last'.user_info = attached
              /\ (read_redis /\ ~in_redis) => last'.user_info = None
              /\ (~read_redis /\ in_redis) => last'.user_info = None
      ]_vars

\* The identity is returned by a verification that follows a failed one
C21_Witness ==
    /\ Started
    /\ last.session_lookups = 1
    /\ last.recent_before = 1
    /\ ~SessionExpired(last.session_id)
    /\ last.user_info = IdJoSession
    /\ last.session_id \in DOMAIN pending_sessions

\* C22: a session verification changes the session records only by
\* removing the verified session when it has expired: the records of a
\* missing or unexpired session, with or without identity, and all other
\* records stay as they were.
C22_OnlyExpiredSessionRemoved ==
    [][(/\ last'.seg \in {"start", "request", "redis"}
        /\ last'.session_lookups = 1) =>
          /\ \/ /\ redis'.session = redis.session
                /\ pending_sessions' = pending_sessions
             \/ /\ SessionExpired(last'.session_id)
                /\ last'.session_removes = 1
                /\ redis'.session \in {redis.session,
                                       Pop(redis.session, last'.session_id)}
                /\ pending_sessions' \in {pending_sessions,
                                          Pop(pending_sessions, last'.session_id)}
          \* _remove_session is called for an expired session only
          /\ last'.session_removes = 1 => SessionExpired(last'.session_id)
      ]_vars

\* An unexpired session gave its identity and is still stored
C22_Witness ==
    /\ Started
    /\ last.session_lookups = 1
    /\ last.user_info = IdJoSession
    /\ last.consumed_before
    /\ last.session_id \in DOMAIN redis.session

\* The timestamps of a list that are inside the window at time t
Recent(attempts, t) == SelectSeq(attempts, LAMBDA x : t - x < rate_limit_window)

\* C23: with calls in flight, every failure that was recorded for a client
\* less than rate_limit_window seconds ago is still in the stored window of
\* that client, in the order of recording, whatever rate checks and
\* recordings of other calls and clients have run since.
C23_NoFailureLost ==
    \A ip \in DOMAIN recent_failures :
        Recent(Get(rate_limit_cache, ip, <<>>), now) = recent_failures[ip]

\* Both clients have failures in the window while a call is in flight
C23_Witness ==
    /\ \E a \in DOMAIN att : att[a].pc # "idle"
    /\ Started
    /\ last.client_ip = "c1"
    /\ last.recent_before = 1
    /\ Len(recent_failures["unknown"]) = 2
    /\ Len(recent_failures["c1"]) = 2

\* C30 as claimed: register_user is issued at most once for a user id: no
\* two calls in flight have issued it for the same id, and none has issued
\* it for an id the host already holds.
C30_CreateInvokedAtMostOnce ==
    \A a \in DOMAIN att :
        att[a].pc = "register_user" =>
            /\ att[a].user_id \notin DOMAIN accounts
            /\ \A b \in DOMAIN att \ {a} :
                   ~(att[b].pc = "register_user" /\ att[b].user_id = att[a].user_id)

\* C29 as claimed: when every IdP request returns or times out and every
\* host call that is waited for is answered, every check_auth call that is
\* in flight (blocked in a Redis call or in the IdP request, or suspended
\* at a host call) ends, with the account id or with a typed failure.
C29_EveryCallTerminates ==
    \A a \in Attempts :
        (att[a].pc # "idle") ~>
            (/\ att[a].pc = "idle"
             /\ last.attempt = a
             /\ last.result \in {"returned", "401", "403", "500"})

(***************************************************************************)
(* Provisioning of one account.                                            *)
(***************************************************************************)
\* The display name of an identity by the chain name, doubleName,
\* placeholder
ChainDisplayName(identity) ==
    IF "name" \in DOMAIN identity THEN identity["name"]
    ELSE IF "doubleName" \in DOMAIN identity THEN identity["doubleName"]
    ELSE <<"U", "n", "k", "n", "o", "w", "n">>

\* C24: when check_user_exists has answered that the account exists, the
\* one call _ensure_user_exists issues is set_displayname(user_id, display
\* name of the identity), never register_user; the answered update leaves
\* the set of accounts and the emails and password of every account as they
\* are and sets the display name to the identity's; no step removes an
\* account.
C24_ExistingAccountOnlyRenamed ==
    [][/\ DOMAIN accounts \subseteq DOMAIN accounts'
       /\ \A a \in DOMAIN att :
            /\ (/\ last'.seg = "exists" /\ last'.attempt = a /\ last'.host_ok
                /\ att[a].user_id \in DOMAIN accounts)
               => /\ att'[a].pc = "set_displayname"
                  /\ host_call(a)' =
                        [op |-> "set_displayname", user_id |-> att[a].user_id,
                         display_name |-> ChainDisplayName(att[a].user_info)]
                  /\ accounts' = accounts
            /\ (last'.seg = "update" /\ last'.attempt = a)
               => /\ last'.host_call =
                        [op |-> "set_displayname", user_id |-> att[a].user_id,
                         display_name |-> ChainDisplayName(att[a].user_info)]
                  /\ DOMAIN accounts' = DOMAIN accounts
                  /\ \A u \in DOMAIN accounts :
                       /\ accounts'[u].emails = accounts[u].emails
                       /\ accounts'[u].password = accounts[u].password
                       /\ accounts'[u].displayname =
                            IF u = att[a].user_id /\ last'.host_ok
                            THEN ChainDisplayName(att[a].user_info)
                            ELSE accounts[u].displayname]_vars

\* An existing account with a password and another email has been renamed
\* by the one call issued for it
C24_Witness ==
    /\ last.seg = "update" /\ last.host_ok
    /\ last.host_call # None
    /\ last.host_call.op = "set_displayname"
    /\ \E u \in DOMAIN accounts :
        /\ accounts[u].displayname = <<"N">>
        /\ accounts[u].emails = <<<<"o", "@", "a">>>>
        /\ accounts[u].password = <<"p">>
        /\ Get(last.user_info, "email", <<>>) = <<"k", "@", "a">>

\* The email list of the create call: [email] for a non-empty email
ClaimedEmails(identity) ==
    IF "email" \in DOMAIN identity /\ identity["email"] # <<>>
    THEN <<identity["email"]>>
    ELSE <<>>

\* C27: when check_user_exists has answered that the account does not
\* exist, _ensure_user_exists issues register_user with no password, the
\* display name of the chain name, doubleName, placeholder, and the email
\* list [email] when the identity has a non-empty email and [] otherwise;
\* the answered create call adds exactly that account under the user id.
C27_AccountCreatedFromIdentity ==
    [][\A a \in DOMAIN att :
        /\ (/\ last'.seg = "exists" /\ last'.attempt = a /\ last'.host_ok
            /\ att[a].user_id \notin DOMAIN accounts)
           => /\ att'[a].pc = "register_user"
              /\ host_call(a)'.op = "register_user"
              /\ host_call(a)'.password = None
              /\ host_call(a)'.displayname = ChainDisplayName(att[a].user_info)
              /\ host_call(a)'.emails = ClaimedEmails(att[a].user_info)
        /\ (last'.seg = "register" /\ last'.attempt = a /\ last'.host_ok)
           => /\ att[a].user_id \notin DOMAIN accounts
              /\ DOMAIN accounts' = DOMAIN accounts \cup {att[a].user_id}
              /\ \A u \in DOMAIN accounts : accounts'[u] = accounts[u]
              /\ accounts'[att[a].user_id] =
                    [displayname |-> ChainDisplayName(att[a].user_info),
                     emails |-> ClaimedEmails(att[a].user_info),
                     password |-> None]]_vars

\* In a provider without domain restriction, an account has been created
\* from an identity with no name and no email
C27_Witness ==
    /\ last.seg = "register" /\ last.host_ok
    /\ allowed_domains = {}
    /\ DOMAIN last.user_info = {"doubleName"}
    /\ last.host_call.op = "register_user"
    /\ \E u \in DOMAIN accounts :
        /\ accounts[u].displayname = last.user_info["doubleName"]
        /\ accounts[u].emails = <<>>
        /\ accounts[u].password = None

(***************************************************************************)
(* Account id derivation.                                                  *)
(***************************************************************************)
\* One character of a cleaned name
CleanChar(c) ==
    CASE c \in {".", "@"} -> "_"
      [] c = "J" -> "j"
      [] c = "B" -> "b"
      [] OTHER -> c

\* '@' + cleaned name + ':' + server name
AccountIdOf(name) ==
    <<"@">> \o [i \in 1..Len(name) |-> CleanChar(name[i])] \o <<":">> \o server_name

GenericLabel == <<"u", "n", "k", "n", "o", "w", "n">>

\* Two names differ only by case or by '.'/'@' versus '_'
SameCleaned(n1, n2) ==
    /\ Len(n1) = Len(n2)
    /\ \A i \in 1..Len(n1) : CleanChar(n1[i]) = CleanChar(n2[i])

\* C25: the mapping is total, and the id is '@' + the cleaned doubleName,
\* or the generic label when the identity has no doubleName, + ':' +
\* server_name; names that differ only by case or by '.'/'@' versus '_'
\* give the same id.
C25_IdFromSubjectNameOrLabel ==
    [][last'.seg = "map"
       => /\ last'.result = "pending"
          /\ last'.returned =
               AccountIdOf(IF "doubleName" \in DOMAIN last'.user_info
                           THEN last'.user_info["doubleName"]
                           ELSE GenericLabel)
          /\ \A other \in MapperIdentities :
               (/\ "doubleName" \in DOMAIN other
                /\ "doubleName" \in DOMAIN last'.user_info
                /\ SameCleaned(other["doubleName"], last'.user_info["doubleName"]))
               => map_tf_user_to_matrix(other) = last'.returned]_vars

(***************************************************************************)
(* Domain gate.                                                            *)
(***************************************************************************)
\* The positions of '@' in a text
AtPositions(text) == {i \in 1..Len(text) : text[i] = "@"}

\* The lowercased text after the last '@' of an email that has one
DomainOf(email) ==
    LET at == CHOOSE i \in AtPositions(email) : \A j \in AtPositions(email) : j <= i
    IN  [i \in 1..(Len(email) - at) |->
            IF email[at + i] = "A" THEN "a" ELSE email[at + i]]

\* C26: the gate lets every identity pass when allowed_domains is empty, and
\* otherwise exactly the identities with a non-empty email whose lowercased
\* text after the last '@' is one of allowed_domains.
C26_GateDecision ==
    [][last'.seg = "gate"
       => LET domains == last'.allowed_domains
              identity == last'.user_info
          IN  (last'.result = "pending") <=>
                \/ domains = {}
                \/ /\ "email" \in DOMAIN identity
                   /\ identity["email"] # <<>>
                   /\ AtPositions(identity["email"]) # {}
                   /\ DomainOf(identity["email"]) \in domains]_vars

(***************************************************************************)
(* End to end.                                                             *)
(***************************************************************************)
\* The account id of the identity J.D on server h
JoAccountId == <<"@", "j", "_", "d", ":">> \o <<"h">>

\* No account, no cache entry, no session and no recorded failure
EmptyState ==
    /\ accounts = EmptyDict
    /\ redis = [token |-> EmptyDict, user |-> EmptyDict, session |-> EmptyDict]
    /\ pending_sessions = EmptyDict
    /\ user_cache = EmptyDict
    /\ \A ip \in DOMAIN rate_limit_cache : rate_limit_cache[ip] = <<>>

\* C28: with allowed_domains = [a] and server name h, from the empty state
\* the login with a token that the IdP resolves to doubleName J.D and email
\* j@A passes verification, the domain gate and the mapping, finds no
\* account, creates the account @j_d:h with display name J.D and returns
\* @j_d:h; that account is then the only one and no failure is recorded.
C28_EndToEnd ==
    [][/\ (/\ EmptyState /\ last'.seg = "start" /\ last'.tf_token = "t1"
           /\ last'.idp_response = "200")
          => /\ last'.result = "pending"
             /\ att'[last'.attempt].user_id = JoAccountId
             /\ att'[last'.attempt].user_info = IdJo
             /\ recent_failures' = recent_failures
       /\ \A a \in DOMAIN att :
            (/\ att[a].user_info = IdJo /\ accounts = EmptyDict
             /\ last'.attempt = a /\ last'.host_ok)
            => /\ last'.seg = "exists" => att'[a].pc = "register_user"
               /\ last'.seg = "register" =>
                    \* with Redis the call returns when the write of the
                    \* profile cache has returned
                    /\ IF redis_client
                       THEN att'[a].pc = "cache_user_info"
                       ELSE /\ last'.result = "returned"
                            /\ last'.returned = JoAccountId
                    /\ DOMAIN accounts' = {JoAccountId}
                    /\ accounts'[JoAccountId].displayname = <<"J", ".", "D">>
                    /\ accounts'[JoAccountId].emails = <<<<"j", "@", "A">>>>
                    /\ accounts'[JoAccountId].password = None
                    /\ rate_limit_cache' = rate_limit_cache
                    /\ recent_failures' = recent_failures
       /\ \A a \in DOMAIN att :
            (/\ att[a].user_info = IdJo
             /\ last'.attempt = a /\ last'.seg = "cache")
            => /\ last'.result = "returned"
               /\ last'.returned = JoAccountId
               /\ att'[a].pc = "idle"
               /\ accounts' = accounts
               /\ JoAccountId \in DOMAIN accounts
               /\ rate_limit_cache' = rate_limit_cache
               /\ recent_failures' = recent_failures]_vars

\* The first login of all has returned @j_d:h and created its account
C28_Witness ==
    /\ last.seg = "cache" /\ last.result = "returned"
    /\ last.returned = JoAccountId
    /\ DOMAIN accounts = {JoAccountId}
    /\ accounts[JoAccountId].displayname = <<"J", ".", "D">>
    /\ \A ip \in DOMAIN rate_limit_cache : rate_limit_cache[ip] = <<>>
    /\ \A ip \in DOMAIN recent_failures : recent_failures[ip] = <<>>
    /\ DOMAIN redis.user = {JoAccountId}

\* C39: with a non-empty allowed_domains, the gate rejects every identity
\* whose email contains no '@'.
C39_EmailWithoutAtRejected ==
    [][(/\ last'.seg = "gate"
        /\ last'.allowed_domains # {}
        /\ "email" \in DOMAIN last'.user_info
        /\ AtPositions(last'.user_info["email"]) = {})
       => last'.result = "403"]_vars

(***************************************************************************)
(* Localpart of a registered account.                                      *)
(***************************************************************************)
\* C36: the account that an answered register_user creates is the account
\* of the user id that check_auth mapped the identity to and returns, also
\* when the cleaned name contains ':'.
C36_RegisteredUnderReturnedId ==
    [][\A a \in DOMAIN att :
        /\ (last'.seg = "register" /\ last'.attempt = a /\ last'.host_ok)
           => /\ last'.result = "returned" => last'.returned = att[a].user_id
              /\ DOMAIN accounts' = DOMAIN accounts \cup {att[a].user_id}
        /\ (last'.seg = "cache" /\ last'.attempt = a)
           => last'.returned = att[a].user_id]_vars

(***************************************************************************)
(* Rate limiter: lists, clients, lockout.                                  *)
(***************************************************************************)
\* C40: every client key of the rate-limit map holds a non-empty list of
\* timestamps, so attempts[-1] of line 245 is defined for every key.
C40_NoEmptyWindow ==
    \A ip \in DOMAIN rate_limit_cache : Len(rate_limit_cache[ip]) >= 1

\* Two clients have a list, and a rate check has read both
C40_Witness ==
    /\ Started
    /\ last.recent_before >= 1
    /\ Cardinality(DOMAIN rate_limit_cache) = 2

\* C35: a step of one client (its rate check with the map-wide pruning, and
\* the recording of its failure) leaves the verdict of the rate check of
\* every other client as it was.
C35_OtherClientsVerdictKept ==
    [][now' = now =>
        \A ip \in ClientIPs \cup {"unknown"} :
            ip # last'.client_ip =>
                check_rate_limit(rate_limit_cache', ip).allowed
                    = check_rate_limit(rate_limit_cache, ip).allowed]_vars

\* A failure of c1 has been recorded while the default client is blocked
C35_Witness ==
    /\ Started
    /\ last.client_ip = "c1"
    /\ last.result = "401"
    /\ ~check_rate_limit(rate_limit_cache, "unknown").allowed

\* C34: a call rejected as rate-limited appends nothing to the list of its
\* client and records no failure; a call is rejected iff max_login_attempts
\* recorded failures of its client are less than rate_limit_window seconds
\* old, rejected calls not being failures.
C34_BlockedCallNotRecorded ==
    [][(last'.seg \in {"start", "request"} /\ last'.login_type = "tf_connect") =>
         LET c == last'.client_ip
         IN  /\ last'.result = "429" <=>
                    Len(recent_failures[c]) >= max_login_attempts
             /\ last'.result = "429" =>
                    /\ recent_failures' = recent_failures
                    /\ Get(rate_limit_cache', c, <<>>) = Get(rate_limit_cache, c, <<>>)
             /\ (/\ Len(Get(rate_limit_cache, c, <<>>)) >= max_login_attempts
                 /\ now - Get(rate_limit_cache, c, <<>>)
                            [Len(Get(rate_limit_cache, c, <<>>)) - max_login_attempts + 1]
                        >= rate_limit_window)
                => last'.result # "429"]_vars

\* A call is rejected one second before the oldest counted failure leaves
\* the window
C34_Witness ==
    /\ Started
    /\ last.result = "429"
    /\ Len(rate_limit_cache[last.client_ip]) = max_login_attempts
    /\ now - rate_limit_cache[last.client_ip][1] = rate_limit_window - 1

\* C31: with calls of one client in flight at once, the failed
\* verifications of a client recorded inside one rate_limit_window never
\* exceed max_login_attempts.
C31_FailuresBoundedPerWindow ==
    \A ip \in DOMAIN recent_failures :
        /\ Len(recent_failures[ip]) <= max_login_attempts
        /\ RecentAttempts(Get(rate_limit_cache, ip, <<>>), now) <= max_login_attempts

\* A call of a client is rejected while another call of that client waits
\* for the host and max_login_attempts failures are recorded
C31_Witness ==
    /\ Started
    /\ last.result = "429"
    /\ Len(recent_failures[last.client_ip]) = max_login_attempts
    /\ \E a \in DOMAIN att :
        att[a].pc # "idle" /\ att[a].client_ip = last.client_ip

\* C38: no step of a login that succeeds removes a timestamp that is inside
\* the window from any list, and the failures recorded before the success
\* count in the rate check of the next call.
C38_SuccessKeepsWindow ==
    [][/\ last'.result \in BlockingCalls \cup {"pending", "returned"} =>
            \A ip \in DOMAIN recent_failures :
                Recent(Get(rate_limit_cache', ip, <<>>), now)
                    = Recent(Get(rate_limit_cache, ip, <<>>), now)
       /\ (last'.seg \in {"start", "request"} /\ last'.login_type = "tf_connect") =>
            (last'.result = "429" <=>
                Len(recent_failures[last'.client_ip]) >= max_login_attempts)]_vars

\* A login has succeeded with a failure of its client inside the window
C38_Witness ==
    /\ last.result = "returned"
    /\ RecentAttempts(Get(rate_limit_cache, last.client_ip, <<>>), now) >= 1
    /\ Len(recent_failures[last.client_ip]) >= 1

(***************************************************************************)
(* Login types that check_auth does not handle.                            *)
(***************************************************************************)
\* C37: a check_auth call with a login type other than "tf_connect"
\* returns None and changes no rate-limit list, no cache, no session and
\* no account, whatever the login fields are and however many failures of
\* the client are recorded.
C37_OtherLoginTypeNoEffect ==
    [][(last'.seg = "start" /\ last'.login_type # "tf_connect") =>
          /\ last'.result = "None"
          /\ last'.token_lookups = 0
          /\ last'.idp_requests = 0
          /\ last'.session_lookups = 0
          /\ UNCHANGED <<now, redis, pending_sessions, rate_limit_cache,
                         user_cache, accounts, att, recent_failures>>]_vars

\* A password login of a client that is over the rate limit
C37_Witness ==
    /\ last.seg = "start"
    /\ last.login_type = "m.login.password"
    /\ last.result = "None"
    /\ last.tf_token # ""
    /\ last.recent_before >= max_login_attempts
    /\ ~check_rate_limit(rate_limit_cache, last.client_ip).allowed

(***************************************************************************)
(* Order of effects of one attempt.                                        *)
(***************************************************************************)
\* The user-profile cache, in Redis and in the process
UserProfiles == <<redis.user, user_cache>>

\* C33: the part of a call before provisioning changes no account and no
\* user-profile cache entry, and goes on to provisioning only when the rate
\* check passed, an identity was verified and the domain gate let it pass;
\* an account changes only in an answered create or update call of such an
\* attempt; a user-profile cache entry is written only after the last host
\* call of the attempt has answered: by Redis when the write of line 284
\* arrives and is applied, whether or not its reply then comes back, and by
\* the process when that write has raised or there is no Redis.
C33_EffectsOnlyAfterChecks ==
    [][now' = now =>
        /\ (\/ last'.seg \in {"start", "request"}
            \/ last'.seg = "redis" /\ last'.result # "cache_user_info") =>
              /\ accounts' = accounts
              /\ UserProfiles' = UserProfiles
              /\ last'.result = "pending" =>
                    /\ last'.recent_before < max_login_attempts
                    /\ Truthy(last'.user_info)
                    /\ ~OutsideAllowedDomains(last'.user_info)
        /\ accounts' # accounts =>
              /\ last'.seg \in {"register", "update"}
              /\ last'.host_ok
              /\ att[last'.attempt].pc \in {"register_user", "set_displayname"}
              /\ ~OutsideAllowedDomains(att[last'.attempt].user_info)
        /\ att'[last'.attempt].pc = "cache_user_info" =>
              /\ last'.host_ok
              /\ last'.seg \in {"register", "update", "redis"}
        /\ redis'.user # redis.user =>
              /\ last'.host_ok
              /\ last'.seg = "redis"
              /\ att[last'.attempt].pc = "cache_user_info"
              /\ last'.applied
        /\ user_cache' # user_cache =>
              /\ last'.host_ok
              /\ last'.result = "returned"
              /\ \/ last'.seg \in {"register", "update"} /\ ~redis_client
                 \/ last'.seg = "cache" /\ ~last'.redis_ok.set]_vars

\* A login has been provisioned after a failure was met, and its profile
\* is held by the process after the write to Redis raised
C33_Witness ==
    /\ last.seg = "cache" /\ last.result = "returned"
    /\ redis_client
    /\ ~last.redis_ok.set
    /\ last.returned \in DOMAIN user_cache
    /\ last.returned \in DOMAIN accounts
    /\ Len(recent_failures["c1"]) >= 1

(***************************************************************************)
(* Freshness of an accepted token.                                         *)
(***************************************************************************)
\* C32 as claimed: a token verification returns an identity only if the
\* IdP answers 200 for that token in this call, or answered 200 for it at
\* most token_cache_ttl seconds before the call.
C32_AcceptedWithinTTLOfAnswer ==
    (Started /\ last.token_lookups = 1 /\ Truthy(last.user_info)) =>
        \/ last.idp_requests = 1 /\ last.idp_response = "200"
        \/ last.verified_ago \in 0..token_cache_ttl

\* C32 as amended: a token verification returns an identity only if the
\* IdP answers 200 for that token in this call, or Redis answers the read
\* of this call with the entry of that token.  Redis holds an entry only
\* from a write that follows a 200 for the token and that Redis applied
\* (its reply came back or was lost), for token_cache_ttl seconds from the
\* arrival of the write, and answers a read with it only
\* when the read arrives inside that time; the verification returns the
\* identity when the answer of the read arrives.
C32_AcceptedTokenFresh ==
    [][LET a == last'.attempt
           token == last'.tf_token
       IN  /\ (/\ last'.seg = "redis"
               /\ last'.result = "cache_token"
               /\ last'.applied) =>
                 /\ last'.idp_response \in {"200", "200empty"}
                 /\ att[a].pc = "cache_token"
                 /\ redis'.token[Sha256Hex(token)] =
                        [val |-> JsonDumps(last'.user_info),
                         exp |-> now + token_cache_ttl]
           /\ (/\ last'.seg = "redis"
               /\ last'.result = "get_cached_token"
               /\ Truthy(att'[a].wire.val)) =>
                 /\ LiveTokenEntry(token)
                 /\ att'[a].wire.val = JsonLoads(redis.token[Sha256Hex(token)].val)
                 /\ token_written[token] # None
                 /\ now - token_written[token].at < token_cache_ttl
                 /\ att'[a].wire.val = token_written[token].user_info
           /\ (/\ last'.seg = "start"
               /\ last'.token_lookups = 1
               /\ Truthy(last'.user_info)) =>
                 /\ \/ last'.idp_requests = 1 /\ last'.idp_response = "200"
                    \/ /\ last'.idp_requests = 0
                       /\ att[a].pc = "get_cached_token"
                       /\ last'.user_info = att[a].wire.val
                       /\ last'.served_at \in 0..now
                 /\ last'.user_info = IdPDirectory(token)]_vars

\* A token is accepted from the cache on an answer that arrives when the
\* 200 of the IdP is more than token_cache_ttl seconds old and the entry
\* has expired
C32_Witness ==
    /\ Started
    /\ last.token_lookups = 1
    /\ last.idp_requests = 0
    /\ last.result = "pending"
    /\ token_verified_at[last.tf_token] = NeverVerified
    /\ ~LiveTokenEntry(last.tf_token)

====
